---------------------------- MODULE Spec2Model ----------------------------
(***************************************************************************)
(* A model of the SCTP association control block of                        *)
(* crates/sctp/src/association.rs: the association state machine, the      *)
(* SACK / congestion / flow-control pipeline of the sender, the promotion  *)
(* of pending chunks to the inflight queue and the shutdown sequence.      *)
(*                                                                         *)
(* The association is one record, `a`, whose fields carry the names of the *)
(* fields of `struct Association`.  Every method of the source is an       *)
(* operator from an association record (and the method's arguments) to the *)
(* record after the call; every action applies one method.                 *)
(*                                                                         *)
(* Parts of the crate that association.rs only calls (PayloadQueue,        *)
(* PendingQueue, RtxTimer, the serial-number helpers) and the parts of the *)
(* association that the source holds only as commented-out text (the       *)
(* handshake, Shutdown(), the write loop) are modelled from the            *)
(* specification; they are marked "spec-modelled" where they are defined.  *)
(***************************************************************************)
EXTENDS Integers, Sequences, FiniteSets, TLC

VARIABLES
    a,          \* the Association (the TCB)
    ret,        \* what check_packet returned ("-": not called)
    last_a_rwnd,\* a_rwnd of the last SACK whose rwnd update ran (-1: none yet)
    closed,     \* close() has completed (the read and write loops have exited)
    n_submitted,\* number of chunks the user has submitted so far (bounds the run)
    pkt         \* the packet handed to check_packet; where one of the other
                \* functions is applied to each of its inputs, the call: its
                \* input and, once it is made, its result

vars == <<a, ret, last_a_rwnd, closed, n_submitted, pkt>>

---------------------------------------------------------------------------
(* Bounds of the model *)

MaxSubmitted == 2
MaxPending == 2
MaxControl == 2
MaxChunksInPacket == 2

---------------------------------------------------------------------------
(* Program constants *)

INITIAL_MTU == 1228
INITIAL_RECV_BUF_SIZE == 1024 * 1024
COMMON_HEADER_SIZE == 12
DATA_CHUNK_HEADER_SIZE == 16

\* TSNs are u32 in the source.  TLC's integers are 32-bit signed, so the model
\* keeps the TSN arithmetic modular but over a narrower word of TsnBits bits:
\* wrap-around and serial-number comparison work as they do for 32 bits.
TsnBits == 16
TsnModulus == 2 ^ TsnBits
TsnHalf == 2 ^ (TsnBits - 1)

AssociationStates ==
    {"Closed", "CookieWait", "CookieEchoed", "Established", "ShutdownAckSent",
     "ShutdownPending", "ShutdownReceived", "ShutdownSent"}

RtxTimerIds == {"T1Init", "T1Cookie", "T2Shutdown", "T3RTX", "Reconfig"}

---------------------------------------------------------------------------
(* 32-bit arithmetic and serial-number comparison *)

\* wrapping addition of TSNs (u32 in the source)
Add32(x, y) == (x + y) % TsnModulus

\* wrapping subtraction of TSNs
Sub32(x, y) == (x - y + TsnModulus) % TsnModulus

Min(x, y) == IF x < y THEN x ELSE y

Max(x, y) == IF x > y THEN x ELSE y

\* spec-modelled (util.rs): a < b iff (b - a) mod 2^n lies in (0, 2^(n-1))
sna32lt(i1, i2) == i1 # i2 /\ Sub32(i2, i1) < TsnHalf

sna32lte(i1, i2) == i1 = i2 \/ sna32lt(i1, i2)

sna32gt(i1, i2) == sna32lt(i2, i1)

sna32gte(i1, i2) == i1 = i2 \/ sna32gt(i1, i2)

---------------------------------------------------------------------------
(* PayloadQueue (spec-modelled: queue/payload_queue.rs).  A map TSN ->     *)
(* chunk with the byte count n_bytes.  A chunk is a record                 *)
(*   [tsn, si, len, acked, abandoned, retransmit, miss_indicator, nsent]   *)
(* where len is user_data.len().                                           *)

EmptyPayloadQueue == [chunk_map |-> <<>>, n_bytes |-> 0]

pq_tsns(q) == DOMAIN q.chunk_map

pq_len(q) == Cardinality(DOMAIN q.chunk_map)

pq_get_num_bytes(q) == q.n_bytes

pq_has(q, tsn) == tsn \in DOMAIN q.chunk_map

\* the first key of the queue in serial-number order (sorted[0])
pq_first(q) ==
    CHOOSE t \in DOMAIN q.chunk_map :
        \A u \in DOMAIN q.chunk_map : sna32lte(t, u)

MapRemove(f, k) == [x \in (DOMAIN f) \ {k} |-> f[x]]

MapPut(f, k, v) == [x \in (DOMAIN f) \cup {k} |-> IF x = k THEN v ELSE f[x]]

\* a chunk value standing for "no chunk" (Option::None)
NoChunk ==
    [tsn |-> 0, si |-> 0, len |-> 0, acked |-> FALSE, abandoned |-> FALSE,
     retransmit |-> FALSE, miss_indicator |-> 0, nsent |-> 0]

\* get(tsn): the chunk; callers test pq_has first
pq_get(q, tsn) == IF pq_has(q, tsn) THEN q.chunk_map[tsn] ELSE NoChunk

\* pop(tsn): removes and returns the chunk only if tsn is the first key
pq_pop(q, tsn) ==
    IF pq_len(q) > 0 /\ tsn = pq_first(q)
    THEN [ok |-> TRUE, c |-> q.chunk_map[tsn],
          q |-> [chunk_map |-> MapRemove(q.chunk_map, tsn),
                 n_bytes |-> q.n_bytes - q.chunk_map[tsn].len]]
    ELSE [ok |-> FALSE, c |-> NoChunk, q |-> q]

\* push_no_check(c)
pq_push_no_check(q, c) ==
    [chunk_map |-> MapPut(q.chunk_map, c.tsn, c),
     n_bytes |-> q.n_bytes + c.len]

\* mark_as_acked(tsn): sets acked, clears retransmit, releases the bytes of
\* the chunk (its user data is dropped) and returns their number
pq_mark_as_acked(q, tsn) ==
    IF pq_has(q, tsn)
    THEN [n |-> q.chunk_map[tsn].len,
          q |-> [chunk_map |->
                    [q.chunk_map EXCEPT ![tsn] =
                        [@ EXCEPT !.acked = TRUE, !.retransmit = FALSE, !.len = 0]],
                 n_bytes |-> q.n_bytes - q.chunk_map[tsn].len]]
    ELSE [n |-> 0, q |-> q]

\* mark_all_to_retrasmit(): every chunk neither acked nor abandoned
pq_mark_all_to_retrasmit(q) ==
    [q EXCEPT !.chunk_map =
        [t \in DOMAIN q.chunk_map |->
            IF q.chunk_map[t].acked \/ q.chunk_map[t].abandoned
            THEN q.chunk_map[t]
            ELSE [q.chunk_map[t] EXCEPT !.retransmit = TRUE]]]

---------------------------------------------------------------------------
(* PendingQueue (spec-modelled: queue/pending_queue.rs).  The model sends  *)
(* unfragmented ordered messages, for which the queue is one FIFO.         *)
(* A pending chunk is a record [si, len].                                  *)

EmptyPendingQueue == <<>>

pending_len(q) == Len(q)

\* peek(): callers test pending_len first
pending_peek(q) == Head(q)

pending_push(q, c) == Append(q, c)

pending_pop(q) == Tail(q)

---------------------------------------------------------------------------
(* The streams of the association.  A stream is [reliability_type,         *)
(* reliability_value, reassembly_queue]; stream 0 is reliable, stream 1    *)
(* abandons a chunk once it has been sent RexmitValue times.  The          *)
(* reassembly queue is the sequence of the chunks [tsn, len] handed to the *)
(* stream and not yet read by the user.                                    *)

RexmitValue == 1

StreamsOpened ==
    [si \in {0, 1} |->
        IF si = 0
        THEN [reliability_type |-> "Reliable", reliability_value |-> 0,
              reassembly_queue |-> <<>>]
        ELSE [reliability_type |-> "Rexmit", reliability_value |-> RexmitValue,
              reassembly_queue |-> <<>>]]

---------------------------------------------------------------------------
(* create_association: the association after construction, with initial    *)
(* TSN tsn (random::<u32>() in the source).                                *)

InitialCwnd == Min(4 * INITIAL_MTU, Max(2 * INITIAL_MTU, 4380))

create_association(tsn) ==
    [state |-> "Closed",
     my_next_tsn |-> tsn,
     cumulative_tsn_ack_point |-> Sub32(tsn, 1),
     advanced_peer_tsn_ack_point |-> Sub32(tsn, 1),
     use_forward_tsn |-> FALSE,
     peer_last_tsn |-> 0,
     max_receive_buffer_size |-> INITIAL_RECV_BUF_SIZE,
     payload_queue |-> EmptyPayloadQueue,
     reconfig_requests |-> <<>>,
     ack_state |-> "Idle",
     ack_mode |-> "Normal",
     delayed_ack_triggered |-> FALSE,
     immediate_ack_triggered |-> FALSE,
     inflight_queue |-> EmptyPayloadQueue,
     pending_queue |-> EmptyPendingQueue,
     control_queue |-> <<>>,
     mtu |-> INITIAL_MTU,
     cwnd |-> InitialCwnd,
     rwnd |-> 0,
     ssthresh |-> 0,
     partial_bytes_acked |-> 0,
     in_fast_recovery |-> FALSE,
     fast_recover_exit_point |-> 0,
     will_send_forward_tsn |-> FALSE,
     will_retransmit_fast |-> FALSE,
     will_retransmit_reconfig |-> FALSE,
     will_send_shutdown |-> FALSE,
     will_send_shutdown_ack |-> FALSE,
     will_send_shutdown_complete |-> FALSE,
     \* timers: TRUE while the timer is running
     t1init |-> FALSE,
     t1cookie |-> FALSE,
     t2shutdown |-> FALSE,
     t3rtx |-> FALSE,
     treconfig |-> FALSE,
     ack_timer |-> FALSE,
     \* spec-modelled (AckTimer): the ack timer has expired and its callback,
     \* on_ack_timeout, waits for the lock of the association; stop() no
     \* longer reaches it
     ack_timeout_dispatched |-> FALSE,
     stored_init |-> FALSE,
     stored_cookie_echo |-> FALSE,
     streams |-> StreamsOpened,
     \* awake_write_loop_ch: the one-slot wake-up of the write loop
     awake |-> FALSE]

---------------------------------------------------------------------------
(* Small methods *)

set_state(s, new_state) == [s EXCEPT !.state = new_state]

awake_write_loop(s) == [s EXCEPT !.awake = TRUE]

\* close_all_timers with a fault: T3-rtx is left running
close_all_timers_without_t3rtx(s) ==
    [s EXCEPT !.t1init = FALSE, !.t1cookie = FALSE, !.t2shutdown = FALSE,
              !.treconfig = FALSE, !.ack_timer = FALSE]

close_all_timers(s) ==
    [s EXCEPT !.t1init = FALSE, !.t1cookie = FALSE, !.t2shutdown = FALSE,
              !.t3rtx = FALSE, !.treconfig = FALSE, !.ack_timer = FALSE]

close(s) == close_all_timers(set_state(s, "Closed"))

t3rtx_stop(s) == [s EXCEPT !.t3rtx = FALSE]

t2shutdown_stop(s) == [s EXCEPT !.t2shutdown = FALSE]

---------------------------------------------------------------------------
(* process_selective_ack *)

\* the same body with a fault: the chunk is looked at but stays in the queue
psa_after_pop_keeping_chunk(s, c, q, is_first) ==
    [s EXCEPT !.t3rtx = IF ~c.acked /\ is_first THEN FALSE ELSE @,
              !.in_fast_recovery =
                  IF @ /\ c.tsn = s.fast_recover_exit_point THEN FALSE ELSE @]

\* the body of the loop over the cumulative region, once chunk c has been
\* popped and q is what is left of the inflight queue
psa_after_pop(s, c, q, is_first) ==
    [s EXCEPT !.inflight_queue = q,
              !.t3rtx = IF ~c.acked /\ is_first THEN FALSE ELSE @,
              !.in_fast_recovery =
                  IF @ /\ c.tsn = s.fast_recover_exit_point THEN FALSE ELSE @]

\* the loop over the cumulative region (i from cumulative_tsn_ack_point + 1
\* while i <= d.cumulative_tsn_ack); first is cumulative_tsn_ack_point + 1
RECURSIVE psa_cumulative(_, _, _, _, _)
RECURSIVE psa_cumulative_popped(_, _, _, _, _, _)
psa_cumulative(s, d, first, i, total) ==
    IF ~sna32lte(i, d.cumulative_tsn_ack)
    THEN [a |-> s, total |-> total, err |-> "Ok"]
    ELSE psa_cumulative_popped(s, d, first, i, total, pq_pop(s.inflight_queue, i))

\* r is the result of inflight_queue.pop(i)
psa_cumulative_popped(s, d, first, i, total, r) ==
    IF ~r.ok
    THEN [a |-> s, total |-> total, err |-> "ErrInflightQueueTsnPop"]
    ELSE psa_cumulative(psa_after_pop(s, r.c, r.q, i = first), d, first, Add32(i, 1),
                        IF ~r.c.acked THEN total + r.c.len ELSE total)

\* the offsets of the gap-ack blocks, in the order the two nested loops visit them
RECURSIVE GapOffsets(_)
GapOffsets(blocks) ==
    IF blocks = <<>> THEN <<>>
    ELSE LET g == Head(blocks)
             n == IF g.end >= g.start THEN g.end - g.start + 1 ELSE 0
         IN [k \in 1..n |-> g.start + k - 1] \o GapOffsets(Tail(blocks))

\* the loop over the gap-ack blocks
RECURSIVE psa_gaps(_, _, _, _, _)
RECURSIVE psa_gap_tsn(_, _, _, _, _, _)
psa_gaps(s, d, offs, total, htna) ==
    IF offs = <<>>
    THEN [a |-> s, total |-> total, htna |-> htna, err |-> "Ok"]
    ELSE psa_gap_tsn(s, d, offs, total, htna, Add32(d.cumulative_tsn_ack, Head(offs)))

\* one TSN of a gap-ack block
psa_gap_tsn(s, d, offs, total, htna, tsn) ==
    IF ~pq_has(s.inflight_queue, tsn)
    THEN [a |-> s, total |-> total, htna |-> htna, err |-> "ErrTsnRequestNotExist"]
    ELSE IF pq_get(s.inflight_queue, tsn).acked
    THEN psa_gaps(s, d, Tail(offs), total, htna)
    ELSE psa_gaps([s EXCEPT !.inflight_queue = pq_mark_as_acked(@, tsn).q],
                  d, Tail(offs),
                  total + pq_mark_as_acked(s.inflight_queue, tsn).n,
                  IF sna32lt(htna, tsn) THEN tsn ELSE htna)

\* the gap-ack blocks are looked at once the cumulative region went through
psa_after_cumulative(d, r1) ==
    IF r1.err # "Ok"
    THEN [a |-> r1.a, total |-> r1.total, htna |-> d.cumulative_tsn_ack, err |-> r1.err]
    ELSE psa_gaps(r1.a, d, GapOffsets(d.gap_ack_blocks), r1.total, d.cumulative_tsn_ack)

process_selective_ack(s, d) ==
    psa_after_cumulative(
        d,
        psa_cumulative(s, d, Add32(s.cumulative_tsn_ack_point, 1),
                       Add32(s.cumulative_tsn_ack_point, 1), 0))

---------------------------------------------------------------------------
(* on_cumulative_tsn_ack_point_advanced *)

\* the same with a fault: slow start grows cwnd whatever the pending queue
\* and fast recovery
on_cumulative_tsn_ack_point_advanced_growing_always(s, total_bytes_acked) ==
    LET s1 == IF pq_len(s.inflight_queue) = 0 THEN t3rtx_stop(s) ELSE s
    IN IF s1.cwnd <= s1.ssthresh
       THEN [s1 EXCEPT !.cwnd = @ + Min(total_bytes_acked, s1.cwnd)]
       ELSE LET pba == s1.partial_bytes_acked + total_bytes_acked
            IN IF pba >= s1.cwnd /\ pending_len(s1.pending_queue) > 0
               THEN [s1 EXCEPT !.partial_bytes_acked = pba - s1.cwnd,
                               !.cwnd = @ + s1.mtu]
               ELSE [s1 EXCEPT !.partial_bytes_acked = pba]

\* the same with a fault: congestion avoidance grows cwnd whatever the
\* pending queue
on_cumulative_tsn_ack_point_advanced_ignoring_pending(s, total_bytes_acked) ==
    LET s1 == IF pq_len(s.inflight_queue) = 0 THEN t3rtx_stop(s) ELSE s
    IN IF s1.cwnd <= s1.ssthresh
       THEN IF ~s1.in_fast_recovery /\ pending_len(s1.pending_queue) > 0
            THEN [s1 EXCEPT !.cwnd = @ + Min(total_bytes_acked, s1.cwnd)]
            ELSE s1
       ELSE LET pba == s1.partial_bytes_acked + total_bytes_acked
            IN IF pba >= s1.cwnd
               THEN [s1 EXCEPT !.partial_bytes_acked = pba - s1.cwnd,
                               !.cwnd = @ + s1.mtu]
               ELSE [s1 EXCEPT !.partial_bytes_acked = pba]

on_cumulative_tsn_ack_point_advanced(s, total_bytes_acked) ==
    LET s1 == IF pq_len(s.inflight_queue) = 0 THEN t3rtx_stop(s) ELSE s
    IN IF s1.cwnd <= s1.ssthresh
       THEN IF ~s1.in_fast_recovery /\ pending_len(s1.pending_queue) > 0
            THEN [s1 EXCEPT !.cwnd = @ + Min(total_bytes_acked, s1.cwnd)]
            ELSE s1
       ELSE LET pba == s1.partial_bytes_acked + total_bytes_acked
            IN IF pba >= s1.cwnd /\ pending_len(s1.pending_queue) > 0
               THEN [s1 EXCEPT !.partial_bytes_acked = pba - s1.cwnd,
                               !.cwnd = @ + s1.mtu]
               ELSE [s1 EXCEPT !.partial_bytes_acked = pba]

---------------------------------------------------------------------------
(* process_fast_retransmission *)

\* the loop with a fault: every chunk whose miss indicator reaches 3 adjusts
\* ssthresh and cwnd, in fast recovery too
RECURSIVE pfr_loop_adjusting_always(_, _, _, _)
pfr_loop_adjusting_always(s, tsn, max_tsn, htna) ==
    IF ~sna32lt(tsn, max_tsn)
    THEN [a |-> s, err |-> "Ok"]
    ELSE IF ~pq_has(s.inflight_queue, tsn)
    THEN [a |-> s, err |-> "ErrTsnRequestNotExist"]
    ELSE LET c == pq_get(s.inflight_queue, tsn) IN
         IF ~c.acked /\ ~c.abandoned /\ c.miss_indicator < 3
         THEN LET s1 == [s EXCEPT !.inflight_queue.chunk_map[tsn].miss_indicator = @ + 1]
                  s2 == IF c.miss_indicator + 1 = 3
                        THEN [s1 EXCEPT
                                !.in_fast_recovery = TRUE,
                                !.fast_recover_exit_point = htna,
                                !.ssthresh = Max(s1.cwnd \div 2, 4 * s1.mtu),
                                !.cwnd = Max(s1.cwnd \div 2, 4 * s1.mtu),
                                !.partial_bytes_acked = 0,
                                !.will_retransmit_fast = TRUE]
                        ELSE s1
              IN pfr_loop_adjusting_always(s2, Add32(tsn, 1), max_tsn, htna)
         ELSE pfr_loop_adjusting_always(s, Add32(tsn, 1), max_tsn, htna)

\* the loop with a fault: chunks already acknowledged are counted as missing
RECURSIVE pfr_loop_counting_acked(_, _, _, _)
pfr_loop_counting_acked(s, tsn, max_tsn, htna) ==
    IF ~sna32lt(tsn, max_tsn)
    THEN [a |-> s, err |-> "Ok"]
    ELSE IF ~pq_has(s.inflight_queue, tsn)
    THEN [a |-> s, err |-> "ErrTsnRequestNotExist"]
    ELSE LET c == pq_get(s.inflight_queue, tsn) IN
         IF ~c.abandoned /\ c.miss_indicator < 3
         THEN LET s1 == [s EXCEPT !.inflight_queue.chunk_map[tsn].miss_indicator = @ + 1]
                  s2 == IF c.miss_indicator + 1 = 3 /\ ~s1.in_fast_recovery
                        THEN [s1 EXCEPT
                                !.in_fast_recovery = TRUE,
                                !.fast_recover_exit_point = htna,
                                !.ssthresh = Max(s1.cwnd \div 2, 4 * s1.mtu),
                                !.cwnd = Max(s1.cwnd \div 2, 4 * s1.mtu),
                                !.partial_bytes_acked = 0,
                                !.will_retransmit_fast = TRUE]
                        ELSE s1
              IN pfr_loop_counting_acked(s2, Add32(tsn, 1), max_tsn, htna)
         ELSE pfr_loop_counting_acked(s, Add32(tsn, 1), max_tsn, htna)

RECURSIVE pfr_loop(_, _, _, _)
pfr_loop(s, tsn, max_tsn, htna) ==
    IF ~sna32lt(tsn, max_tsn)
    THEN [a |-> s, err |-> "Ok"]
    ELSE IF ~pq_has(s.inflight_queue, tsn)
    THEN [a |-> s, err |-> "ErrTsnRequestNotExist"]
    ELSE LET c == pq_get(s.inflight_queue, tsn) IN
         IF ~c.acked /\ ~c.abandoned /\ c.miss_indicator < 3
         THEN LET s1 == [s EXCEPT !.inflight_queue.chunk_map[tsn].miss_indicator = @ + 1]
                  s2 == IF c.miss_indicator + 1 = 3 /\ ~s1.in_fast_recovery
                        THEN [s1 EXCEPT
                                !.in_fast_recovery = TRUE,
                                !.fast_recover_exit_point = htna,
                                !.ssthresh = Max(s1.cwnd \div 2, 4 * s1.mtu),
                                !.cwnd = Max(s1.cwnd \div 2, 4 * s1.mtu),
                                !.partial_bytes_acked = 0,
                                !.will_retransmit_fast = TRUE]
                        ELSE s1
              IN pfr_loop(s2, Add32(tsn, 1), max_tsn, htna)
         ELSE pfr_loop(s, Add32(tsn, 1), max_tsn, htna)

\* the end of process_fast_retransmission, r being the result of its loop
pfr_finish(r, cum_tsn_ack_point_advanced) ==
    IF r.err # "Ok"
    THEN r
    ELSE IF r.a.in_fast_recovery /\ cum_tsn_ack_point_advanced
    THEN [a |-> [r.a EXCEPT !.will_retransmit_fast = TRUE], err |-> "Ok"]
    ELSE r

process_fast_retransmission(s, cum_tsn_ack_point, htna, cum_tsn_ack_point_advanced) ==
    pfr_finish(
        IF ~s.in_fast_recovery \/ cum_tsn_ack_point_advanced
        THEN pfr_loop(s, Add32(cum_tsn_ack_point, 1),
                      IF ~s.in_fast_recovery
                      THEN htna
                      ELSE Add32(Add32(cum_tsn_ack_point, pq_len(s.inflight_queue)), 1),
                      htna)
        ELSE [a |-> s, err |-> "Ok"],
        cum_tsn_ack_point_advanced)

---------------------------------------------------------------------------
(* handle_sack and postprocess_sack.  A SACK is a record                    *)
(* [cumulative_tsn_ack, advertised_receiver_window_credit, gap_ack_blocks]. *)

\* handle_sack ignores a SACK outside these states
sack_state_ok(state) ==
    state = "Established" \/ state = "ShutdownPending" \/ state = "ShutdownReceived"

\* the staleness test with a fault: the two TSNs are taken the wrong way round
sack_is_stale_swapped(s, d) == sna32gt(d.cumulative_tsn_ack, s.cumulative_tsn_ack_point)

\* an out-of-order SACK: its cumulative ack is older than the ack point
sack_is_stale(s, d) == sna32gt(s.cumulative_tsn_ack_point, d.cumulative_tsn_ack)

\* the rwnd update with a fault: the bytes outstanding are not subtracted
update_rwnd_ignoring_outstanding(s, d) ==
    [s EXCEPT !.rwnd = d.advertised_receiver_window_credit]

\* the new rwnd: a_rwnd minus the bytes still outstanding, not below 0
update_rwnd(s, d) ==
    LET bytes_outstanding == pq_get_num_bytes(s.inflight_queue)
    IN IF bytes_outstanding >= d.advertised_receiver_window_credit
       THEN [s EXCEPT !.rwnd = 0]
       ELSE [s EXCEPT !.rwnd = d.advertised_receiver_window_credit - bytes_outstanding]

\* RFC 3758 Sec 3.5 C2: advance advanced_peer_tsn_ack_point over abandoned chunks
RECURSIVE advance_over_abandoned(_, _)
advance_over_abandoned(s, i) ==
    IF pq_has(s.inflight_queue, i) /\ pq_get(s.inflight_queue, i).abandoned
    THEN advance_over_abandoned([s EXCEPT !.advanced_peer_tsn_ack_point = i], Add32(i, 1))
    ELSE s

\* the same with a fault: step C1 is left out
sack_forward_tsn_without_c1(s) ==
    LET s2 == advance_over_abandoned(s, Add32(s.advanced_peer_tsn_ack_point, 1))
        s3 == IF sna32gt(s2.advanced_peer_tsn_ack_point, s2.cumulative_tsn_ack_point)
              THEN [s2 EXCEPT !.will_send_forward_tsn = TRUE]
              ELSE s2
    IN awake_write_loop(s3)

\* RFC 3758 Sec 3.5 C1-C3, as run by handle_sack when use_forward_tsn is set
sack_forward_tsn(s) ==
    LET s1 == IF sna32lt(s.advanced_peer_tsn_ack_point, s.cumulative_tsn_ack_point)
              THEN [s EXCEPT !.advanced_peer_tsn_ack_point = s.cumulative_tsn_ack_point]
              ELSE s
        s2 == advance_over_abandoned(s1, Add32(s1.advanced_peer_tsn_ack_point, 1))
        s3 == IF sna32gt(s2.advanced_peer_tsn_ack_point, s2.cumulative_tsn_ack_point)
              THEN [s2 EXCEPT !.will_send_forward_tsn = TRUE]
              ELSE s2
    IN awake_write_loop(s3)

\* postprocess_sack with a fault: will_send_shutdown_ack is not set
postprocess_sack_forgetting_ack_flag(s, state, should_awake_write_loop) ==
    IF pq_len(s.inflight_queue) > 0
    THEN IF should_awake_write_loop THEN awake_write_loop(s) ELSE s
    ELSE IF state = "ShutdownPending"
    THEN awake_write_loop(set_state([s EXCEPT !.will_send_shutdown = TRUE], "ShutdownSent"))
    ELSE IF state = "ShutdownReceived"
    THEN awake_write_loop(set_state(s, "ShutdownAckSent"))
    ELSE IF should_awake_write_loop THEN awake_write_loop(s) ELSE s

postprocess_sack(s, state, should_awake_write_loop) ==
    LET r == IF pq_len(s.inflight_queue) > 0
             THEN [a |-> s, wake |-> should_awake_write_loop]
             ELSE IF state = "ShutdownPending"
             THEN [a |-> set_state([s EXCEPT !.will_send_shutdown = TRUE], "ShutdownSent"),
                   wake |-> TRUE]
             ELSE IF state = "ShutdownReceived"
             THEN [a |-> set_state([s EXCEPT !.will_send_shutdown_ack = TRUE],
                                   "ShutdownAckSent"),
                   wake |-> TRUE]
             ELSE [a |-> s, wake |-> should_awake_write_loop]
    IN IF r.wake THEN awake_write_loop(r.a) ELSE r.a

\* The result of handle_sack is [a, ret, processed, rwnd_set]: processed is
\* TRUE when the SACK went through the whole method (it was neither discarded
\* nor rejected), rwnd_set when the method got as far as setting rwnd.

\* the end of handle_sack, r4 being the result of process_fast_retransmission
handle_sack_retransmitted(state, advanced, r4) ==
    IF r4.err # "Ok"
    THEN [a |-> r4.a, ret |-> r4.err, processed |-> FALSE, rwnd_set |-> TRUE]
    ELSE [a |-> postprocess_sack(
                    IF r4.a.use_forward_tsn THEN sack_forward_tsn(r4.a) ELSE r4.a,
                    state, advanced),
          ret |-> "Ok", processed |-> TRUE, rwnd_set |-> TRUE]

\* handle_sack from the update of rwnd on, s2 being the association after
\* the cumulative ack point has been moved
handle_sack_advanced(s2, d, state, htna, advanced) ==
    handle_sack_retransmitted(
        state, advanced,
        process_fast_retransmission(update_rwnd(s2, d), d.cumulative_tsn_ack, htna,
                                    advanced))

\* handle_sack after process_selective_ack, r1 being its result
handle_sack_acked(d, state, r1, advanced) ==
    IF r1.err # "Ok"
    THEN [a |-> r1.a, ret |-> r1.err, processed |-> FALSE, rwnd_set |-> FALSE]
    ELSE handle_sack_advanced(
             IF advanced
             THEN on_cumulative_tsn_ack_point_advanced(
                      [r1.a EXCEPT !.cumulative_tsn_ack_point = d.cumulative_tsn_ack],
                      r1.total)
             ELSE r1.a,
             d, state, r1.htna, advanced)

handle_sack(s, d) ==
    IF ~sack_state_ok(s.state)
    THEN [a |-> s, ret |-> "Ok", processed |-> FALSE, rwnd_set |-> FALSE]
    ELSE IF sack_is_stale(s, d)
    THEN [a |-> s, ret |-> "Ok", processed |-> FALSE, rwnd_set |-> FALSE]
    ELSE handle_sack_acked(d, s.state, process_selective_ack(s, d),
                           sna32lt(s.cumulative_tsn_ack_point, d.cumulative_tsn_ack))

---------------------------------------------------------------------------
(* Shutdown handlers *)

\* handle_shutdown with a fault: ShutdownPending is treated like ShutdownSent
handle_shutdown_from_pending(s) ==
    IF s.state = "Established"
    THEN IF pq_len(s.inflight_queue) > 0
         THEN set_state(s, "ShutdownReceived")
         ELSE awake_write_loop(
                  set_state([s EXCEPT !.will_send_shutdown_ack = TRUE], "ShutdownAckSent"))
    ELSE IF s.state = "ShutdownSent" \/ s.state = "ShutdownPending"
    THEN awake_write_loop(
             set_state([s EXCEPT !.will_send_shutdown_ack = TRUE], "ShutdownAckSent"))
    ELSE s

handle_shutdown(s) ==
    IF s.state = "Established"
    THEN IF pq_len(s.inflight_queue) > 0
         THEN set_state(s, "ShutdownReceived")
         ELSE awake_write_loop(
                  set_state([s EXCEPT !.will_send_shutdown_ack = TRUE], "ShutdownAckSent"))
    ELSE IF s.state = "ShutdownSent"
    THEN awake_write_loop(
             set_state([s EXCEPT !.will_send_shutdown_ack = TRUE], "ShutdownAckSent"))
    ELSE s

\* handle_shutdown_ack with a fault: the state is not looked at
handle_shutdown_ack_in_any_state(s) ==
    awake_write_loop([t2shutdown_stop(s) EXCEPT !.will_send_shutdown_complete = TRUE])

\* handle_shutdown_ack with a fault: T2-shutdown is left running
handle_shutdown_ack_keeping_t2(s) ==
    IF s.state = "ShutdownSent" \/ s.state = "ShutdownAckSent"
    THEN awake_write_loop([s EXCEPT !.will_send_shutdown_complete = TRUE])
    ELSE s

handle_shutdown_ack(s) ==
    IF s.state = "ShutdownSent" \/ s.state = "ShutdownAckSent"
    THEN awake_write_loop([t2shutdown_stop(s) EXCEPT !.will_send_shutdown_complete = TRUE])
    ELSE s

handle_shutdown_complete(s) ==
    IF s.state = "ShutdownAckSent"
    THEN close(t2shutdown_stop(s))
    ELSE s

---------------------------------------------------------------------------
(* The user's send calls.  The result is [a, ret]. *)

RECURSIVE push_all(_, _)
push_all(q, chunks) ==
    IF chunks = <<>> THEN q ELSE push_all(pending_push(q, Head(chunks)), Tail(chunks))

\* send_payload_data with a fault: the state is not looked at
send_payload_data_unchecked(s, chunks) ==
    [a |-> awake_write_loop([s EXCEPT !.pending_queue = push_all(@, chunks)]),
     ret |-> "Ok"]

send_payload_data(s, chunks) ==
    IF s.state # "Established"
    THEN [a |-> s, ret |-> "ErrPayloadDataStateNotExist"]
    ELSE [a |-> awake_write_loop([s EXCEPT !.pending_queue = push_all(@, chunks)]),
          ret |-> "Ok"]

\* the chunk with empty user data marks the end of the stream
send_reset_request(s, stream_identifier) ==
    IF s.state # "Established"
    THEN [a |-> s, ret |-> "ErrResetPacketInStateNotExist"]
    ELSE [a |-> awake_write_loop(
                    [s EXCEPT !.pending_queue =
                        pending_push(@, [si |-> stream_identifier, len |-> 0])]),
          ret |-> "Ok"]

---------------------------------------------------------------------------
(* Promotion of pending chunks to the inflight queue *)

\* `elapsed.as_millis() as u32`: as_millis() is a u128 and the cast keeps its
\* low 32 bits.  The model keeps the low MillisBits bits.
MillisBits == 4
MillisModulus == 2 ^ MillisBits

as_millis_as_u32(elapsed) == elapsed % MillisModulus

\* check_partial_reliability_status for a chunk c whose payload_type is
\* payload_type; elapsed is what SystemTime::now().duration_since(c.since)
\* yields: a number of milliseconds, or -1 for Err (c.since is later than now).
\* The result is the chunk after the call.
check_partial_reliability_status_at(s, c, payload_type, elapsed) ==
    IF ~s.use_forward_tsn
    THEN c
    ELSE IF payload_type = "Dcep"
    THEN c
    ELSE IF c.si \in DOMAIN s.streams
    THEN IF s.streams[c.si].reliability_type = "Rexmit"
         THEN IF c.nsent >= s.streams[c.si].reliability_value
              THEN [c EXCEPT !.abandoned = TRUE]
              ELSE c
         ELSE IF s.streams[c.si].reliability_type = "Timed"
         THEN IF elapsed # -1
                 /\ as_millis_as_u32(elapsed) >= s.streams[c.si].reliability_value
              THEN [c EXCEPT !.abandoned = TRUE]
              ELSE c
         ELSE c
    ELSE c

\* the chunks of the association's specifications carry no DCEP payload and
\* their streams are not Timed, so that the time elapsed is not looked at
check_partial_reliability_status(s, c) ==
    check_partial_reliability_status_at(s, c, "Binary", 0)

generate_next_tsn(s) == [s EXCEPT !.my_next_tsn = Add32(@, 1)]

\* pops the head of the pending queue, stamps it and pushes it to inflight
move_pending_data_chunk_to_inflight_queue(s) ==
    LET p == pending_peek(s.pending_queue)
        c0 == [tsn |-> s.my_next_tsn, si |-> p.si, len |-> p.len, acked |-> FALSE,
               abandoned |-> FALSE, retransmit |-> FALSE, miss_indicator |-> 0,
               nsent |-> 1]
        s1 == generate_next_tsn([s EXCEPT !.pending_queue = pending_pop(@)])
        c == check_partial_reliability_status(s1, c0)
    IN [s1 EXCEPT !.inflight_queue = pq_push_no_check(@, c)]

\* `self.my_next_tsn += 1` is an addition on u32: a build with overflow checks
\* (the dev profile) panics when my_next_tsn is at the top of the range, a
\* build without them (the release profile) wraps.  The outcomes of
\* generate_next_tsn over the builds, as [a, panic]:
generate_next_tsn_builds(s) ==
    {[a |-> generate_next_tsn(s), panic |-> FALSE]}
        \cup (IF s.my_next_tsn = TsnModulus - 1
              THEN {[a |-> s, panic |-> TRUE]}
              ELSE {})

\* the outcomes of move_pending_data_chunk_to_inflight_queue over the builds:
\* the panic comes once the chunk has left the pending queue
move_pending_data_chunk_to_inflight_queue_builds(s) ==
    {[a |-> IF o.panic
            THEN [s EXCEPT !.pending_queue = pending_pop(@)]
            ELSE move_pending_data_chunk_to_inflight_queue(s),
      panic |-> o.panic] :
        o \in generate_next_tsn_builds([s EXCEPT !.pending_queue = pending_pop(@)])}

\* the while loop of pop_pending_data_chunks_to_send: [a, chunks, sis_to_reset]
RECURSIVE pop_pending_loop(_, _, _)
pop_pending_loop(s, chunks, sis) ==
    IF pending_len(s.pending_queue) = 0
    THEN [a |-> s, chunks |-> chunks, sis_to_reset |-> sis]
    ELSE LET c == pending_peek(s.pending_queue) IN
         IF c.len = 0
         THEN pop_pending_loop([s EXCEPT !.pending_queue = pending_pop(@)], chunks,
                               Append(sis, c.si))
         ELSE IF pq_get_num_bytes(s.inflight_queue) + c.len > s.cwnd
         THEN [a |-> s, chunks |-> chunks, sis_to_reset |-> sis]
         ELSE IF c.len > s.rwnd
         THEN [a |-> s, chunks |-> chunks, sis_to_reset |-> sis]
         ELSE LET s1 == [s EXCEPT !.rwnd = @ - c.len]
                  s2 == move_pending_data_chunk_to_inflight_queue(s1)
              IN pop_pending_loop(s2, Append(chunks, s1.my_next_tsn), sis)

\* the zero window probe with a fault: the inflight queue is not looked at
zero_window_probe_ignoring_inflight(r) ==
    IF r.chunks = <<>> /\ pending_len(r.a.pending_queue) > 0
    THEN [a |-> move_pending_data_chunk_to_inflight_queue(r.a),
          chunks |-> <<r.a.my_next_tsn>>, sis_to_reset |-> r.sis_to_reset]
    ELSE r

\* the zero window probe: one chunk goes through when nothing else could
zero_window_probe(r) ==
    IF r.chunks = <<>> /\ pq_len(r.a.inflight_queue) = 0
       /\ pending_len(r.a.pending_queue) > 0
    THEN [a |-> move_pending_data_chunk_to_inflight_queue(r.a),
          chunks |-> <<r.a.my_next_tsn>>, sis_to_reset |-> r.sis_to_reset]
    ELSE r

\* the result is [a, chunks, sis_to_reset]; chunks holds the TSNs promoted
pop_pending_data_chunks_to_send(s) ==
    IF pending_len(s.pending_queue) = 0
    THEN [a |-> s, chunks |-> <<>>, sis_to_reset |-> <<>>]
    ELSE zero_window_probe(pop_pending_loop(s, <<>>, <<>>))

---------------------------------------------------------------------------
(* get_data_packets_to_retransmit.  The result is [a, chunks, hangs]:       *)
(* chunks are the chunks handed to bundle_data_chunks_into_packets, as they *)
(* are when they are cloned; hangs is TRUE when the loop meets a chunk that *)
(* is not marked for retransmission, for then `continue` repeats the same   *)
(* iteration (i is not incremented) and the call does not return.          *)

\* the loop with a fault: the retransmit flag is not looked at
RECURSIVE gdptr_loop_ignoring_flag(_, _, _, _, _)
gdptr_loop_ignoring_flag(s, i, chunks, bytes_to_send, awnd) ==
    LET tsn == Add32(Add32(s.cumulative_tsn_ack_point, i), 1) IN
    IF ~pq_has(s.inflight_queue, tsn)
    THEN [a |-> s, chunks |-> chunks, hangs |-> FALSE]
    ELSE LET c == pq_get(s.inflight_queue, tsn) IN
         IF ~(i = 0 /\ s.rwnd < c.len) /\ bytes_to_send + c.len > awnd
         THEN [a |-> s, chunks |-> chunks, hangs |-> FALSE]
         ELSE LET c1 == check_partial_reliability_status(
                            s, [c EXCEPT !.retransmit = FALSE, !.nsent = @ + 1])
                  s1 == [s EXCEPT !.inflight_queue.chunk_map[tsn] = c1]
              IN IF i = 0 /\ s.rwnd < c.len
                 THEN [a |-> s1, chunks |-> Append(chunks, c1), hangs |-> FALSE]
                 ELSE gdptr_loop_ignoring_flag(s1, i + 1, Append(chunks, c1),
                                               bytes_to_send + c.len, awnd)

RECURSIVE gdptr_loop(_, _, _, _, _)
gdptr_loop(s, i, chunks, bytes_to_send, awnd) ==
    LET tsn == Add32(Add32(s.cumulative_tsn_ack_point, i), 1) IN
    IF ~pq_has(s.inflight_queue, tsn)
    THEN [a |-> s, chunks |-> chunks, hangs |-> FALSE]
    ELSE LET c == pq_get(s.inflight_queue, tsn) IN
         IF ~c.retransmit
         THEN [a |-> s, chunks |-> chunks, hangs |-> TRUE]
         ELSE IF ~(i = 0 /\ s.rwnd < c.len) /\ bytes_to_send + c.len > awnd
         THEN [a |-> s, chunks |-> chunks, hangs |-> FALSE]
         ELSE LET c1 == check_partial_reliability_status(
                            s, [c EXCEPT !.retransmit = FALSE, !.nsent = @ + 1])
                  s1 == [s EXCEPT !.inflight_queue.chunk_map[tsn] = c1]
              IN IF i = 0 /\ s.rwnd < c.len
                 THEN [a |-> s1, chunks |-> Append(chunks, c1), hangs |-> FALSE]
                 ELSE gdptr_loop(s1, i + 1, Append(chunks, c1),
                                 bytes_to_send + c.len, awnd)

get_data_packets_to_retransmit(s) ==
    gdptr_loop(s, 0, <<>>, 0, Min(s.cwnd, s.rwnd))

---------------------------------------------------------------------------
(* The write loop's gathering.  A packet is named by the chunk it carries. *)

\* gather_outbound: drains the control queue; the state-dependent gathering is
\* not part of the method, so ok stays true.  The result is [a, raw_packets, ok].
gather_outbound(s) ==
    [a |-> [s EXCEPT !.control_queue = <<>>],
     raw_packets |-> s.control_queue,
     ok |-> TRUE]

\* the loop of create_forward_tsn (RFC 3758 Sec 3.5 C4): the stream
\* identifiers of the chunks from i up to advanced_peer_tsn_ack_point, as far
\* as the inflight queue holds them (the model has no stream sequence numbers)
RECURSIVE cft_streams(_, _, _)
cft_streams(s, i, sis) ==
    IF ~sna32lte(i, s.advanced_peer_tsn_ack_point)
    THEN sis
    ELSE IF ~pq_has(s.inflight_queue, i)
    THEN sis
    ELSE cft_streams(s, Add32(i, 1), sis \cup {pq_get(s.inflight_queue, i).si})

\* create_forward_tsn: the FORWARD-TSN chunk
create_forward_tsn(s) ==
    [type |-> "FORWARD-TSN",
     new_cumulative_tsn |-> s.advanced_peer_tsn_ack_point,
     streams |-> cft_streams(s, Add32(s.cumulative_tsn_ack_point, 1), {})]

\* gather_outbound_forward_tsn_packets: the result is [a, raw_packets]
gather_outbound_forward_tsn_packets(s, raw_packets) ==
    IF s.will_send_forward_tsn
    THEN [a |-> [s EXCEPT !.will_send_forward_tsn = FALSE],
          raw_packets |->
              IF sna32gt(s.advanced_peer_tsn_ack_point, s.cumulative_tsn_ack_point)
              THEN Append(raw_packets, create_forward_tsn(s))
              ELSE raw_packets]
    ELSE [a |-> s, raw_packets |-> raw_packets]

\* gather_outbound_shutdown_packets: the result is [a, raw_packets, ok]
gather_outbound_shutdown_packets(s, raw_packets) ==
    IF s.will_send_shutdown
    THEN [a |-> [s EXCEPT !.will_send_shutdown = FALSE],
          raw_packets |-> Append(raw_packets, "SHUTDOWN"), ok |-> TRUE]
    ELSE IF s.will_send_shutdown_ack
    THEN [a |-> [s EXCEPT !.will_send_shutdown_ack = FALSE],
          raw_packets |-> Append(raw_packets, "SHUTDOWN-ACK"), ok |-> TRUE]
    ELSE IF s.will_send_shutdown_complete
    THEN [a |-> [s EXCEPT !.will_send_shutdown_complete = FALSE],
          raw_packets |-> Append(raw_packets, "SHUTDOWN-COMPLETE"), ok |-> FALSE]
    ELSE [a |-> s, raw_packets |-> raw_packets, ok |-> TRUE]

---------------------------------------------------------------------------
(* Timer callbacks *)

send_init(s) ==
    IF s.stored_init
    THEN awake_write_loop([s EXCEPT !.control_queue = Append(@, "INIT")])
    ELSE s

send_cookie_echo(s) ==
    IF s.stored_cookie_echo
    THEN awake_write_loop([s EXCEPT !.control_queue = Append(@, "COOKIE-ECHO")])
    ELSE s

\* the T3-rtx branch with a fault: cwnd is halved instead of set to the MTU
on_t3rtx_timeout_halving(s) ==
    awake_write_loop(
        [s EXCEPT !.ssthresh = Max(s.cwnd \div 2, 4 * s.mtu), !.cwnd = s.cwnd \div 2,
                  !.inflight_queue = pq_mark_all_to_retrasmit(@)])

\* the T3-rtx branch with a fault: the advanced peer ack point moves but no
\* FORWARD-TSN is asked for
on_t3rtx_timeout_without_forward_tsn(s) ==
    LET s1 == [s EXCEPT !.ssthresh = Max(s.cwnd \div 2, 4 * s.mtu), !.cwnd = s.mtu]
        s2 == IF s1.use_forward_tsn
              THEN advance_over_abandoned(s1, Add32(s1.advanced_peer_tsn_ack_point, 1))
              ELSE s1
    IN awake_write_loop([s2 EXCEPT !.inflight_queue = pq_mark_all_to_retrasmit(@)])

\* the T3-rtx branch of on_retransmission_timeout
on_t3rtx_timeout(s) ==
    LET s1 == [s EXCEPT !.ssthresh = Max(s.cwnd \div 2, 4 * s.mtu), !.cwnd = s.mtu]
        s2 == IF s1.use_forward_tsn
              THEN LET s3 == advance_over_abandoned(
                                 s1, Add32(s1.advanced_peer_tsn_ack_point, 1))
                   IN IF sna32gt(s3.advanced_peer_tsn_ack_point,
                                 s3.cumulative_tsn_ack_point)
                      THEN [s3 EXCEPT !.will_send_forward_tsn = TRUE]
                      ELSE s3
              ELSE s1
    IN awake_write_loop([s2 EXCEPT !.inflight_queue = pq_mark_all_to_retrasmit(@)])

\* the callback with a fault: T2-shutdown sets its flag and wakes nobody
on_retransmission_timeout_without_wake(s, id) ==
    CASE id = "T1Init" -> send_init(s)
      [] id = "T1Cookie" -> send_cookie_echo(s)
      [] id = "T2Shutdown" ->
            IF s.state = "ShutdownSent"
            THEN [s EXCEPT !.will_send_shutdown = TRUE]
            ELSE IF s.state = "ShutdownAckSent"
            THEN [s EXCEPT !.will_send_shutdown_ack = TRUE]
            ELSE s
      [] id = "T3RTX" -> on_t3rtx_timeout(s)
      [] id = "Reconfig" -> awake_write_loop([s EXCEPT !.will_retransmit_reconfig = TRUE])

on_retransmission_timeout(s, id) ==
    CASE id = "T1Init" -> send_init(s)
      [] id = "T1Cookie" -> send_cookie_echo(s)
      [] id = "T2Shutdown" ->
            IF s.state = "ShutdownSent"
            THEN awake_write_loop([s EXCEPT !.will_send_shutdown = TRUE])
            ELSE IF s.state = "ShutdownAckSent"
            THEN awake_write_loop([s EXCEPT !.will_send_shutdown_ack = TRUE])
            ELSE s
      [] id = "T3RTX" -> on_t3rtx_timeout(s)
      [] id = "Reconfig" -> awake_write_loop([s EXCEPT !.will_retransmit_reconfig = TRUE])

timer_running(s, id) ==
    CASE id = "T1Init" -> s.t1init
      [] id = "T1Cookie" -> s.t1cookie
      [] id = "T2Shutdown" -> s.t2shutdown
      [] id = "T3RTX" -> s.t3rtx
      [] id = "Reconfig" -> s.treconfig

---------------------------------------------------------------------------
(* check_packet.  A packet is [source_port, destination_port,              *)
(* verification_tag, chunks], chunks a sequence of chunk types.            *)

RECURSIVE check_chunks(_, _)
check_chunks(p, i) ==
    IF i > Len(p.chunks) THEN "Ok"
    ELSE IF p.chunks[i] = "ChunkInit"
    THEN IF Len(p.chunks) # 1 THEN "ErrInitChunkBundled"
         ELSE IF p.verification_tag # 0 THEN "ErrInitChunkVerifyTagNotZero"
         ELSE check_chunks(p, i + 1)
    ELSE check_chunks(p, i + 1)

\* check_packet with a fault: the destination port is not looked at
check_packet_ignoring_destination(p) ==
    IF p.source_port = 0 THEN "ErrSctpPacketSourcePortZero"
    ELSE check_chunks(p, 1)

check_packet(p) ==
    IF p.source_port = 0 THEN "ErrSctpPacketSourcePortZero"
    ELSE IF p.destination_port = 0 THEN "ErrSctpPacketDestinationPortZero"
    ELSE check_chunks(p, 1)

---------------------------------------------------------------------------
(* The handshake and the user's Shutdown() (spec-modelled: section 4.1;    *)
(* the source holds them as commented-out text only)                       *)

client_init(s) ==
    [send_init([set_state(s, "CookieWait") EXCEPT !.stored_init = TRUE])
        EXCEPT !.t1init = TRUE]

handle_init_ack(s, a_rwnd, forward_tsn) ==
    IF s.state # "CookieWait" THEN s
    ELSE LET s1 == [s EXCEPT !.rwnd = a_rwnd, !.ssthresh = a_rwnd, !.t1init = FALSE,
                             !.stored_init = FALSE, !.use_forward_tsn = forward_tsn,
                             !.stored_cookie_echo = TRUE]
         IN set_state([send_cookie_echo(s1) EXCEPT !.t1cookie = TRUE], "CookieEchoed")

handle_cookie_ack(s) ==
    IF s.state # "CookieEchoed" THEN s
    ELSE set_state([s EXCEPT !.t1cookie = FALSE, !.stored_cookie_echo = FALSE],
                   "Established")

shutdown(s) ==
    IF s.state # "Established" THEN s
    ELSE LET s1 == set_state(s, "ShutdownPending")
         IN IF pq_len(s1.inflight_queue) = 0
            THEN set_state(awake_write_loop([s1 EXCEPT !.will_send_shutdown = TRUE]),
                           "ShutdownSent")
            ELSE s1

---------------------------------------------------------------------------
(* Inputs *)

InitialTsns == {TsnModulus - 1}

\* a_rwnd of the peer's INIT-ACK
InitAckRwnds == {1500}

\* a_rwnd of the peer's SACKs
SackRwnds == {0, 600, 3000}

ChunkKinds == {[si |-> 0, len |-> 1200], [si |-> 1, len |-> 600]}

DataInputs ==
    {<<c>> : c \in ChunkKinds}

GapChoices ==
    {<<>>, <<[start |-> 2, end |-> 2]>>}

\* the SACKs the peer may send: cumulative acks around the ack point
SackInputs(s) ==
    {[cumulative_tsn_ack |-> Add32(Sub32(s.cumulative_tsn_ack_point, 1), k),
      advertised_receiver_window_credit |-> w,
      gap_ack_blocks |-> g] :
        k \in 0..(MaxSubmitted + 1), w \in SackRwnds, g \in GapChoices}

NoPacket == [source_port |-> 0, destination_port |-> 0, verification_tag |-> 0,
             chunks |-> <<>>]

ChunkTypes == {"ChunkInit", "ChunkPayloadData", "ChunkSelectiveAck"}

RECURSIVE SeqsUpTo(_, _)
SeqsUpTo(S, n) ==
    IF n = 0 THEN {<<>>}
    ELSE LET shorter == SeqsUpTo(S, n - 1)
         IN shorter \cup {Append(q, x) : q \in shorter, x \in S}

Packets ==
    {[source_port |-> sp, destination_port |-> dp, verification_tag |-> vt,
      chunks |-> cs] :
        sp \in {0, 5000}, dp \in {0, 5000}, vt \in {0, 7},
        cs \in SeqsUpTo(ChunkTypes, MaxChunksInPacket)}

---------------------------------------------------------------------------
(* The state machine *)

Init ==
    /\ \E tsn \in InitialTsns : a = create_association(tsn)
    /\ ret = "-"
    /\ last_a_rwnd = -1
    /\ closed = FALSE
    /\ n_submitted = 0
    /\ pkt = NoPacket

\* a step that leads to association s
Applied(s) ==
    /\ a' = s
    /\ UNCHANGED <<ret, last_a_rwnd, closed, n_submitted, pkt>>

\* spec-modelled: the client's init()
ClientInit ==
    /\ ~closed
    /\ a.state = "Closed"
    /\ a.my_next_tsn = Add32(a.cumulative_tsn_ack_point, 1)
    /\ Applied(client_init(a))

\* spec-modelled: the peer's INIT-ACK arrives, in answer to an INIT that
\* has left the control queue
HandleInitAck ==
    /\ ~closed
    /\ a.state = "CookieWait"
    /\ a.control_queue = <<>>
    /\ \E w \in InitAckRwnds, f \in BOOLEAN : Applied(handle_init_ack(a, w, f))

\* spec-modelled: the peer's COOKIE-ACK arrives, in answer to a COOKIE-ECHO
\* that has left the control queue
HandleCookieAck ==
    /\ ~closed
    /\ a.state = "CookieEchoed"
    /\ a.control_queue = <<>>
    /\ Applied(handle_cookie_ack(a))

\* spec-modelled: the user's Shutdown()
Shutdown ==
    /\ ~closed
    /\ a.state = "Established"
    /\ Applied(shutdown(a))

Close ==
    /\ ~closed
    /\ a' = close(a)
    /\ closed' = TRUE
    /\ UNCHANGED <<ret, last_a_rwnd, n_submitted, pkt>>

SendPayloadData(chunks) ==
    /\ Len(a.pending_queue) + Len(chunks) <= MaxPending
    /\ n_submitted + Len(chunks) <= MaxSubmitted
    /\ LET r == send_payload_data(a, chunks) IN
          /\ a' = r.a
          /\ n_submitted' = IF r.ret = "Ok" THEN n_submitted + Len(chunks) ELSE n_submitted
          /\ UNCHANGED <<ret, last_a_rwnd, closed, pkt>>

SendResetRequest(si) ==
    /\ Len(a.pending_queue) + 1 <= MaxPending
    /\ n_submitted + 1 <= MaxSubmitted
    /\ LET r == send_reset_request(a, si) IN
          /\ a' = r.a
          /\ n_submitted' = IF r.ret = "Ok" THEN n_submitted + 1 ELSE n_submitted
          /\ UNCHANGED <<ret, last_a_rwnd, closed, pkt>>

\* spec-modelled caller (the write loop's gatherOutboundDataAndReconfigPackets):
\* pops what cwnd and rwnd allow and starts T3-rtx when data was popped
GatherOutboundDataAndReconfigPackets ==
    /\ ~closed
    /\ a.state = "Established"
    /\ LET r == pop_pending_data_chunks_to_send(a) IN
          Applied(IF r.chunks # <<>> THEN [r.a EXCEPT !.t3rtx = TRUE] ELSE r.a)

HandleSack(d) ==
    LET r == handle_sack(a, d) IN
       /\ a' = r.a
       /\ last_a_rwnd' = IF r.rwnd_set THEN d.advertised_receiver_window_credit
                         ELSE last_a_rwnd
       /\ UNCHANGED <<ret, closed, n_submitted, pkt>>

HandleShutdown == Applied(handle_shutdown(a))

HandleShutdownAck == Applied(handle_shutdown_ack(a))

HandleShutdownComplete ==
    /\ a' = handle_shutdown_complete(a)
    /\ closed' = (closed \/ a.state = "ShutdownAckSent")
    /\ UNCHANGED <<ret, last_a_rwnd, n_submitted, pkt>>

\* one pass of the write loop after a wake-up: gather_outbound
WriteLoopPass ==
    /\ ~closed
    /\ a.awake
    /\ LET r == gather_outbound([a EXCEPT !.awake = FALSE]) IN
          /\ a' = IF r.ok THEN r.a ELSE close(r.a)
          /\ closed' = ~r.ok
          /\ UNCHANGED <<ret, last_a_rwnd, n_submitted, pkt>>

\* spec-modelled (section 4.1): T2-shutdown is started once SHUTDOWN or
\* SHUTDOWN-ACK has been sent
T2Start ==
    /\ ~closed
    /\ a.state \in {"ShutdownSent", "ShutdownAckSent"}
    /\ ~a.t2shutdown
    /\ Applied([a EXCEPT !.t2shutdown = TRUE])

\* a running retransmission timer fires
OnRetransmissionTimeout(id) ==
    /\ timer_running(a, id)
    /\ Len(a.control_queue) < MaxControl
    /\ Applied(on_retransmission_timeout(a, id))

Next ==
    \/ ClientInit
    \/ HandleInitAck
    \/ HandleCookieAck
    \/ Shutdown
    \/ Close
    \/ \E chunks \in DataInputs : SendPayloadData(chunks)
    \/ \E si \in DOMAIN StreamsOpened : SendResetRequest(si)
    \/ GatherOutboundDataAndReconfigPackets
    \/ \E d \in SackInputs(a) : HandleSack(d)
    \/ HandleShutdown
    \/ HandleShutdownAck
    \/ HandleShutdownComplete
    \/ WriteLoopPass
    \/ T2Start
    \/ \E id \in RtxTimerIds : OnRetransmissionTimeout(id)

Spec == Init /\ [][Next]_vars

---------------------------------------------------------------------------
(* check_packet applied to every packet of Packets *)

InitPacket ==
    /\ a = create_association(TsnModulus - 2)
    /\ ret = "-"
    /\ last_a_rwnd = -1
    /\ closed = FALSE
    /\ n_submitted = 0
    /\ pkt \in Packets

CheckPacket ==
    /\ ret = "-"
    /\ ret' = check_packet(pkt)
    /\ UNCHANGED <<a, last_a_rwnd, closed, n_submitted, pkt>>

NextPacket == CheckPacket

SpecPacket == InitPacket /\ [][NextPacket]_vars

---------------------------------------------------------------------------
(* Data transfer on an established association: up to MaxData chunks are   *)
(* sent, promoted, acknowledged cumulatively or by gap-ack blocks, timed    *)
(* out and retransmitted.  The chunks are small enough for five of them to  *)
(* be in flight under the initial cwnd, which fast retransmission needs.    *)

MaxData == 5

\* a chunk is retransmitted while its nsent is below MaxSent
MaxSent == 2

\* stream 0 is reliable, stream 1 abandons a chunk at its second retransmission
DataStreams ==
    [si \in {0, 1} |->
        IF si = 0
        THEN [reliability_type |-> "Reliable", reliability_value |-> 0,
              reassembly_queue |-> <<>>]
        ELSE [reliability_type |-> "Rexmit", reliability_value |-> RexmitValue + 1,
              reassembly_queue |-> <<>>]]

DataChunkKinds == {[si |-> 0, len |-> 500], [si |-> 1, len |-> 500]}

\* a_rwnd of the peer's INIT-ACK and of its SACKs
DataRwnds == {4000}

\* gap-ack blocks of one TSN each
DataGapChoices ==
    {<<>>} \cup {<<[start |-> g, end |-> g]>> : g \in 2..MaxData}

\* the SACKs of the peer: the cumulative ack is at the ack point or up to two
\* TSNs ahead of it
DataSackInputs(s) ==
    {[cumulative_tsn_ack |-> Add32(s.cumulative_tsn_ack_point, k),
      advertised_receiver_window_credit |-> w,
      gap_ack_blocks |-> g] :
        k \in 0..2, w \in DataRwnds, g \in DataGapChoices}

\* what the write loop leaves of association s once it has sent its control
\* packets
ControlSent(s) == [gather_outbound(s).a EXCEPT !.awake = FALSE]

\* the association once the handshake is over (spec-modelled handshake)
EstablishedAssociation(tsn, a_rwnd, forward_tsn) ==
    handle_cookie_ack(
        ControlSent(handle_init_ack(ControlSent(client_init(create_association(tsn))),
                                    a_rwnd, forward_tsn)))

InitData ==
    /\ \E w \in DataRwnds, f \in BOOLEAN :
          a = [EstablishedAssociation(TsnModulus - 3, w, f) EXCEPT !.streams = DataStreams]
    /\ ret = "-"
    /\ last_a_rwnd = -1
    /\ closed = FALSE
    /\ n_submitted = 0
    /\ pkt = NoPacket

\* the user sends one chunk; only the first chunk may be on stream 1
DataSend(c) ==
    /\ n_submitted < MaxData
    /\ c.si = 0 \/ n_submitted = 0
    /\ a' = send_payload_data(a, <<c>>).a
    /\ n_submitted' = n_submitted + 1
    /\ UNCHANGED <<ret, last_a_rwnd, closed, pkt>>

\* spec-modelled caller, as in GatherOutboundDataAndReconfigPackets
DataPromote ==
    /\ pending_len(a.pending_queue) > 0
    /\ LET r == pop_pending_data_chunks_to_send(a) IN
          Applied(IF r.chunks # <<>> THEN [r.a EXCEPT !.t3rtx = TRUE] ELSE r.a)

DataSack(d) ==
    /\ pq_len(a.inflight_queue) > 0
    /\ a' = handle_sack(a, d).a
    /\ ret' = handle_sack(a, d).ret
    /\ UNCHANGED <<last_a_rwnd, closed, n_submitted, pkt>>

DataT3Timeout ==
    /\ a.t3rtx
    /\ Applied(on_retransmission_timeout(a, "T3RTX"))

\* the write loop retransmits; a call that does not return leaves nothing
\* to observe
DataRetransmit ==
    /\ \E t \in pq_tsns(a.inflight_queue) : a.inflight_queue.chunk_map[t].retransmit
    /\ \A t \in pq_tsns(a.inflight_queue) : a.inflight_queue.chunk_map[t].nsent < MaxSent
    /\ ~get_data_packets_to_retransmit(a).hangs
    /\ Applied(get_data_packets_to_retransmit(a).a)

NextData ==
    \/ \E c \in DataChunkKinds : DataSend(c)
    \/ DataPromote
    \/ \E d \in DataSackInputs(a) : DataSack(d)
    \/ DataT3Timeout
    \/ DataRetransmit

SpecData == InitData /\ [][NextData]_vars

---------------------------------------------------------------------------
(* bundle_data_chunks_into_packets.  The chunks are records with the field  *)
(* len (user_data.len()); a packet is the sequence of its chunks.           *)

RECURSIVE bundle_loop(_, _, _, _, _)
bundle_loop(mtu, chunks, packets, chunks_to_send, bytes_in_packet) ==
    IF chunks = <<>>
    THEN IF chunks_to_send # <<>> THEN Append(packets, chunks_to_send) ELSE packets
    ELSE LET c == Head(chunks) IN
         IF bytes_in_packet + c.len > mtu
         THEN bundle_loop(mtu, Tail(chunks), Append(packets, chunks_to_send), <<c>>,
                          COMMON_HEADER_SIZE + DATA_CHUNK_HEADER_SIZE + c.len)
         ELSE bundle_loop(mtu, Tail(chunks), packets, Append(chunks_to_send, c),
                          bytes_in_packet + DATA_CHUNK_HEADER_SIZE + c.len)

bundle_data_chunks_into_packets(s, chunks) ==
    bundle_loop(s.mtu, chunks, <<>>, <<>>, COMMON_HEADER_SIZE)

\* the size on the wire of a packet of DATA chunks
RECURSIVE PacketSize(_)
PacketSize(p) ==
    IF p = <<>> THEN COMMON_HEADER_SIZE
    ELSE DATA_CHUNK_HEADER_SIZE + Head(p).len + PacketSize(Tail(p))

\* the chunks of a list of packets, in order
RECURSIVE Flatten(_)
Flatten(ps) == IF ps = <<>> THEN <<>> ELSE Head(ps) \o Flatten(Tail(ps))

---------------------------------------------------------------------------
(* bundle_data_chunks_into_packets applied to every list of at most         *)
(* MaxBundled chunks whose user data has one of the lengths of BundleLens:  *)
(* each chunk fits in a packet alone (mtu - 28 = 1200).                    *)

MaxBundled == 3

BundleLens == {1, 10, 600, 1190, INITIAL_MTU - COMMON_HEADER_SIZE - DATA_CHUNK_HEADER_SIZE}

BundleInputs ==
    UNION {[1..n -> {[si |-> 0, len |-> l] : l \in BundleLens}] : n \in 0..MaxBundled}

InitBundle ==
    /\ a = create_association(TsnModulus - 2)
    /\ ret = "-"
    /\ last_a_rwnd = -1
    /\ closed = FALSE
    /\ n_submitted = 0
    /\ pkt \in {[chunks |-> cs, packets |-> <<>>, called |-> FALSE] : cs \in BundleInputs}

BundleDataChunksIntoPackets ==
    /\ ~pkt.called
    /\ pkt' = [pkt EXCEPT !.packets = bundle_data_chunks_into_packets(a, pkt.chunks),
                          !.called = TRUE]
    /\ UNCHANGED <<a, ret, last_a_rwnd, closed, n_submitted>>

NextBundle == BundleDataChunksIntoPackets

SpecBundle == InitBundle /\ [][NextBundle]_vars

---------------------------------------------------------------------------
(* check_partial_reliability_status applied to a chunk of stream 0 or of    *)
(* the unknown stream 2, with every payload type, number of transmissions   *)
(* up to MaxNsent and time elapsed up to MaxElapsed milliseconds, under     *)
(* every reliability of stream 0, with and without forward TSN.            *)

MaxNsent == 3
MaxElapsed == MillisModulus + 3

ReliabilityTypes == {"Reliable", "Rexmit", "Timed"}

ReliabilityValues == {0, 2, 5}

ReliabilityInputs ==
    [c : {[NoChunk EXCEPT !.tsn = 1, !.si = si, !.len = 10, !.nsent = n,
                          !.abandoned = ab] :
             si \in {0, 2}, n \in 1..MaxNsent, ab \in BOOLEAN},
     payload_type : {"Dcep", "Binary"},
     elapsed : -1..MaxElapsed,
     after : {NoChunk},
     called : {FALSE}]

InitReliability ==
    /\ \E f \in BOOLEAN, t \in ReliabilityTypes, v \in ReliabilityValues :
          a = [EstablishedAssociation(TsnModulus - 3, 4000, f) EXCEPT
                  !.streams = [si \in {0} |-> [reliability_type |-> t,
                                               reliability_value |-> v,
                                               reassembly_queue |-> <<>>]]]
    /\ ret = "-"
    /\ last_a_rwnd = -1
    /\ closed = FALSE
    /\ n_submitted = 0
    /\ pkt \in ReliabilityInputs

CheckPartialReliabilityStatus ==
    /\ ~pkt.called
    /\ pkt' = [pkt EXCEPT
                  !.after = check_partial_reliability_status_at(
                                a, pkt.c, pkt.payload_type, pkt.elapsed),
                  !.called = TRUE]
    /\ UNCHANGED <<a, ret, last_a_rwnd, closed, n_submitted>>

NextReliability == CheckPartialReliabilityStatus

SpecReliability == InitReliability /\ [][NextReliability]_vars

---------------------------------------------------------------------------
(* The receiving side.  A DATA chunk d is [tsn, si, len, immediate_sack];   *)
(* a FORWARD-TSN chunk c is [new_cumulative_tsn, streams]; an outgoing      *)
(* reset request p is [reconfig_request_sequence_number, sender_last_tsn,   *)
(* stream_identifiers].  A handler yields [a, reply, some, returns]: the    *)
(* association after the call, the packets of the Vec returned, whether the *)
(* Option returned is Some, and whether the call returns at all.            *)

\* PayloadQueue (spec-modelled): can_push(p, cumulative_tsn)
pq_can_push(q, tsn, cumulative_tsn) ==
    ~(pq_has(q, tsn) \/ sna32lte(tsn, cumulative_tsn))

\* PayloadQueue (spec-modelled): push(p, cumulative_tsn)
pq_push(q, c, cumulative_tsn) ==
    IF pq_can_push(q, c.tsn, cumulative_tsn) THEN pq_push_no_check(q, c) ELSE q

\* PayloadQueue (spec-modelled): get_last_tsn_received(), as [some, tsn]
pq_get_last_tsn_received(q) ==
    IF pq_len(q) = 0 THEN [some |-> FALSE, tsn |-> 0]
    ELSE [some |-> TRUE,
          tsn |-> CHOOSE t \in DOMAIN q.chunk_map :
                      \A u \in DOMAIN q.chunk_map : sna32lte(u, t)]

\* Stream (spec-modelled): get_num_bytes_in_reassembly_queue()
RECURSIVE SumLen(_)
SumLen(q) == IF q = <<>> THEN 0 ELSE Head(q).len + SumLen(Tail(q))

stream_get_num_bytes_in_reassembly_queue(st) == SumLen(st.reassembly_queue)

\* Stream (spec-modelled): handle_data(d) puts the chunk into the reassembly
\* queue unless a chunk with its TSN is there already
stream_handle_data(st, d) ==
    IF \E i \in DOMAIN st.reassembly_queue : st.reassembly_queue[i].tsn = d.tsn
    THEN st
    ELSE [st EXCEPT !.reassembly_queue = Append(@, [tsn |-> d.tsn, len |-> d.len])]

\* the bytes queued in the streams sis
RECURSIVE bytes_queued(_, _)
bytes_queued(streams, sis) ==
    IF sis = {} THEN 0
    ELSE LET si == CHOOSE x \in sis : TRUE
         IN stream_get_num_bytes_in_reassembly_queue(streams[si])
            + bytes_queued(streams, sis \ {si})

get_my_receiver_window_credit(s) ==
    LET queued == bytes_queued(s.streams, DOMAIN s.streams)
    IN IF queued >= s.max_receive_buffer_size
       THEN 0
       ELSE s.max_receive_buffer_size - queued

\* create_stream only looks the stream up: no stream is created
create_stream(s, stream_identifier) == stream_identifier \in DOMAIN s.streams

\* whether get_or_create_stream yields a stream
get_or_create_stream(s, stream_identifier) ==
    IF stream_identifier \in DOMAIN s.streams
    THEN TRUE
    ELSE create_stream(s, stream_identifier)

unregister_stream(s, stream_identifier) ==
    [s EXCEPT !.streams = MapRemove(@, stream_identifier)]

RECURSIVE unregister_streams(_, _)
unregister_streams(s, sis) ==
    IF sis = {} THEN s
    ELSE LET si == CHOOSE x \in sis : TRUE
         IN unregister_streams(
                IF si \in DOMAIN s.streams THEN unregister_stream(s, si) ELSE s,
                sis \ {si})

\* reset_streams_if_any: [a, resp]
reset_streams_if_any(s, p) ==
    IF sna32lte(p.sender_last_tsn, s.peer_last_tsn)
    THEN [a |-> [unregister_streams(s, p.stream_identifiers) EXCEPT
                    !.reconfig_requests =
                        MapRemove(@, p.reconfig_request_sequence_number)],
          resp |-> "RECONFIG(SuccessPerformed)"]
    ELSE [a |-> s, resp |-> "RECONFIG(InProgress)"]

\* handle_reconfig_param for an outgoing reset request: [a, resp]
handle_reconfig_param(s, p) ==
    reset_streams_if_any(
        [s EXCEPT !.reconfig_requests =
                      MapPut(@, p.reconfig_request_sequence_number, p)], p)

\* reconfig_requests.values().cloned().collect(): the requests as a sequence
\* (the order of a HashMap is not specified; the model stores at most
\* MaxResetRequests = 1 request, so that there is one order)
MaxResetRequests == 1

RECURSIVE values(_)
values(f) ==
    IF DOMAIN f = {} THEN <<>>
    ELSE LET k == CHOOSE x \in DOMAIN f : \A y \in DOMAIN f : x <= y
         IN <<f[k]>> \o values(MapRemove(f, k))

\* for rst_req in rst_reqs: [a, reply]
RECURSIVE hplt_reset(_, _, _)
hplt_reset(s, rst_reqs, reply) ==
    IF rst_reqs = <<>> THEN [a |-> s, reply |-> reply]
    ELSE LET r == reset_streams_if_any(s, Head(rst_reqs))
         IN hplt_reset(r.a, Tail(rst_reqs), Append(reply, r.resp))

\* the loop of handle_peer_last_tsn_and_acknowledgement, which runs while
\* pop(peer_last_tsn + 1) is None: [a, reply, iterations, returns], where
\* iterations counts the runs of the loop's body (n so far).  With an empty
\* queue pop is None for every TSN and the loop does not end: returns is
\* FALSE.
RECURSIVE hplt_loop(_, _, _)
hplt_loop(s, reply, n) ==
    LET p == pq_pop(s.payload_queue, Add32(s.peer_last_tsn, 1)) IN
    IF p.ok
    THEN [a |-> [s EXCEPT !.payload_queue = p.q], reply |-> reply,
          iterations |-> n, returns |-> TRUE]
    ELSE IF pq_len(s.payload_queue) = 0
    THEN [a |-> s, reply |-> reply, iterations |-> n, returns |-> FALSE]
    ELSE LET s1 == [s EXCEPT !.peer_last_tsn = Add32(@, 1)]
             r == hplt_reset(s1, values(s1.reconfig_requests), reply)
         IN hplt_loop(r.a, r.reply, n + 1)

\* the ack decision of handle_peer_last_tsn_and_acknowledgement
hplt_ack(s, sack_immediately) ==
    LET has_packet_loss == pq_len(s.payload_queue) > 0 IN
    IF \/ /\ s.ack_state # "Immediate"
          /\ ~sack_immediately
          /\ ~has_packet_loss
          /\ s.ack_mode = "Normal"
       \/ s.ack_mode = "AlwaysDelay"
    THEN IF s.ack_state = "Idle"
         THEN [s EXCEPT !.delayed_ack_triggered = TRUE]
         ELSE [s EXCEPT !.immediate_ack_triggered = TRUE]
    ELSE [s EXCEPT !.immediate_ack_triggered = TRUE]

handle_peer_last_tsn_and_acknowledgement(s, sack_immediately) ==
    LET l == hplt_loop(s, <<>>, 0) IN
    IF l.returns
    THEN [a |-> hplt_ack(l.a, sack_immediately), reply |-> l.reply,
          some |-> TRUE, returns |-> TRUE]
    ELSE [a |-> l.a, reply |-> l.reply, some |-> FALSE, returns |-> FALSE]

\* the chunk as the payload queue holds it
received_chunk(d) == [NoChunk EXCEPT !.tsn = d.tsn, !.si = d.si, !.len = d.len]

\* the first part of handle_data, up to the early return:
\* [a, stream_handle_data, discarded]
handle_data_push(s, d) ==
    LET pushed == [s EXCEPT !.payload_queue =
                       pq_push(@, received_chunk(d), s.peer_last_tsn)]
        last_tsn == pq_get_last_tsn_received(s.payload_queue)
    IN IF ~pq_can_push(s.payload_queue, d.tsn, s.peer_last_tsn)
       THEN [a |-> s, stream_handle_data |-> FALSE, discarded |-> FALSE]
       ELSE IF ~get_or_create_stream(s, d.si)
       THEN [a |-> s, stream_handle_data |-> FALSE, discarded |-> TRUE]
       ELSE IF get_my_receiver_window_credit(s) > 0
       THEN [a |-> pushed, stream_handle_data |-> TRUE, discarded |-> FALSE]
       ELSE IF last_tsn.some /\ sna32lt(d.tsn, last_tsn.tsn)
       THEN [a |-> pushed, stream_handle_data |-> TRUE, discarded |-> FALSE]
       ELSE [a |-> s, stream_handle_data |-> FALSE, discarded |-> FALSE]

\* handle_data up to the call of handle_peer_last_tsn_and_acknowledgement:
\* [a, discarded]
handle_data_deliver(s, d) ==
    LET p == handle_data_push(s, d) IN
    [a |-> IF p.stream_handle_data /\ d.si \in DOMAIN p.a.streams
           THEN [p.a EXCEPT !.streams[d.si] = stream_handle_data(@, d)]
           ELSE p.a,
     discarded |-> p.discarded]

handle_data(s, d) ==
    LET p == handle_data_deliver(s, d) IN
    IF p.discarded
    THEN [a |-> p.a, reply |-> <<>>, some |-> FALSE, returns |-> TRUE]
    ELSE handle_peer_last_tsn_and_acknowledgement(p.a, d.immediate_sack)

\* the loop of handle_forward_tsn that advances peer_last_tsn
RECURSIVE hft_advance(_, _)
hft_advance(s, new_cumulative_tsn) ==
    IF sna32lt(s.peer_last_tsn, new_cumulative_tsn)
    THEN hft_advance(
             [s EXCEPT !.payload_queue = pq_pop(@, Add32(s.peer_last_tsn, 1)).q,
                       !.peer_last_tsn = Add32(@, 1)],
             new_cumulative_tsn)
    ELSE s

\* Stream (spec-modelled): handle_forward_tsn_for_ordered(ssn) and
\* handle_forward_tsn_for_unordered(new_cumulative_tsn) drop the incomplete
\* chunk sets that were abandoned.  The messages of the model are one chunk
\* each, so that a reassembly queue holds complete messages only.
hft_notify_streams(s, c) == s

\* the out-of-date FORWARD-TSN with a fault: the ack timer is left running
hft_out_of_date_keeping_timer(s) ==
    awake_write_loop([s EXCEPT !.ack_state = "Immediate"])

\* the branch of handle_forward_tsn for a FORWARD-TSN that is out of date
hft_out_of_date(s) ==
    awake_write_loop([s EXCEPT !.ack_state = "Immediate", !.ack_timer = FALSE])

\* handle_forward_tsn with a fault: use_forward_tsn is not looked at
handle_forward_tsn_unchecked(s, c) ==
    IF sna32lte(c.new_cumulative_tsn, s.peer_last_tsn)
    THEN [a |-> hft_out_of_date(s), reply |-> <<>>, some |-> FALSE, returns |-> TRUE]
    ELSE handle_peer_last_tsn_and_acknowledgement(
             hft_notify_streams(hft_advance(s, c.new_cumulative_tsn), c), FALSE)

handle_forward_tsn(s, c) ==
    IF ~s.use_forward_tsn
    THEN [a |-> s, reply |-> <<"ERROR(UnrecognizedChunkType)">>,
          some |-> TRUE, returns |-> TRUE]
    ELSE IF sna32lte(c.new_cumulative_tsn, s.peer_last_tsn)
    THEN [a |-> hft_out_of_date(s), reply |-> <<>>, some |-> FALSE, returns |-> TRUE]
    ELSE handle_peer_last_tsn_and_acknowledgement(
             hft_notify_streams(hft_advance(s, c.new_cumulative_tsn), c), FALSE)

handle_chunk_start(s) ==
    [s EXCEPT !.delayed_ack_triggered = FALSE, !.immediate_ack_triggered = FALSE]

\* spec-modelled (the source holds handleChunkEnd as commented-out text)
handle_chunk_end(s) ==
    IF s.immediate_ack_triggered
    THEN awake_write_loop([s EXCEPT !.ack_state = "Immediate", !.ack_timer = FALSE])
    ELSE IF s.delayed_ack_triggered
    THEN [s EXCEPT !.ack_state = "Delay", !.ack_timer = TRUE]
    ELSE s

\* spec-modelled (section 4.2, step 4): the write loop sends a SACK when
\* ack_state is Immediate, and ack_state goes back to Idle
gather_outbound_sack_packets(s) ==
    IF s.ack_state = "Immediate" THEN [s EXCEPT !.ack_state = "Idle"] ELSE s

on_ack_timeout(s) == awake_write_loop([s EXCEPT !.ack_state = "Immediate"])

---------------------------------------------------------------------------
(* The receiving side of an established association: up to MaxRecv chunks   *)
(* (DATA, FORWARD-TSN, RECONFIG with an outgoing reset request) arrive, one *)
(* per packet; the user reads, the ack timer fires and the write loop       *)
(* sends.  Streams 0 and 1 are open; DATA also arrives for stream 2.  The   *)
(* receive buffer takes two chunks.  ret becomes "NoReturn" when a handler  *)
(* does not return: the read loop then handles nothing more.               *)

MaxRecv == 4
RecvChunkLen == 500
RecvBufferSize == 2 * RecvChunkLen
RecvPeerLastTsn == 1

AckModes == {"Normal", "NoDelay", "AlwaysDelay"}

RecvStreams ==
    [si \in {0, 1} |-> [reliability_type |-> "Reliable", reliability_value |-> 0,
                        reassembly_queue |-> <<>>]]

\* the DATA chunks that may arrive: a duplicate of the last TSN received in
\* sequence, and the next three TSNs
RecvDataInputs(s) ==
    [tsn : {Add32(s.peer_last_tsn, k) : k \in 0..3},
     si : {0, 2},
     len : {RecvChunkLen},
     immediate_sack : BOOLEAN]

\* the FORWARD-TSN chunks that may arrive: behind, at and ahead of
\* peer_last_tsn
ForwardTsnInputs(s) ==
    [new_cumulative_tsn : {Sub32(s.peer_last_tsn, 2), s.peer_last_tsn,
                           Add32(s.peer_last_tsn, 1), Add32(s.peer_last_tsn, 2)},
     streams : {<<>>}]

\* the outgoing reset requests that may arrive
ResetRequestInputs(s) ==
    [reconfig_request_sequence_number : {1},
     sender_last_tsn : {s.peer_last_tsn, Add32(s.peer_last_tsn, 2)},
     stream_identifiers : {{1}}]

InitRecv ==
    /\ \E f \in BOOLEAN, m \in AckModes :
          a = [EstablishedAssociation(TsnModulus - 3, 4000, f) EXCEPT
                  !.peer_last_tsn = RecvPeerLastTsn,
                  !.max_receive_buffer_size = RecvBufferSize,
                  !.ack_mode = m,
                  !.streams = RecvStreams]
    /\ ret = "-"
    /\ last_a_rwnd = -1
    /\ closed = FALSE
    /\ n_submitted = 0
    /\ pkt = <<>>

\* spec-modelled (handleChunk): the chunk is handled between
\* handle_chunk_start and handleChunkEnd, and the packets of the reply go to
\* the control queue
Handled(r) ==
    /\ a' = IF r.returns
            THEN handle_chunk_end(
                     IF r.reply # <<>>
                     THEN awake_write_loop([r.a EXCEPT !.control_queue = @ \o r.reply])
                     ELSE r.a)
            ELSE r.a
    /\ ret' = IF r.returns THEN ret ELSE "NoReturn"
    /\ n_submitted' = n_submitted + 1
    /\ UNCHANGED <<last_a_rwnd, closed, pkt>>

RecvData(d) ==
    /\ ret = "-"
    /\ n_submitted < MaxRecv
    /\ Handled(handle_data(handle_chunk_start(a), d))

RecvForwardTsn(c) ==
    /\ ret = "-"
    /\ n_submitted < MaxRecv
    /\ Handled(handle_forward_tsn(handle_chunk_start(a), c))

RecvResetRequest(p) ==
    /\ ret = "-"
    /\ n_submitted < MaxRecv
    /\ Cardinality(DOMAIN a.reconfig_requests) < MaxResetRequests
    /\ LET r == handle_reconfig_param(handle_chunk_start(a), p)
       IN Handled([a |-> r.a, reply |-> <<r.resp>>, some |-> TRUE, returns |-> TRUE])

\* spec-modelled (Stream::read): the user reads the first message of a stream
ReadStream(si) ==
    /\ ret = "-"
    /\ si \in DOMAIN a.streams
    /\ a.streams[si].reassembly_queue # <<>>
    /\ a' = [a EXCEPT !.streams[si].reassembly_queue = Tail(@)]
    /\ UNCHANGED <<ret, last_a_rwnd, closed, n_submitted, pkt>>

\* spec-modelled (AckTimer): the single-shot ack timer expires and its
\* callback is dispatched
AckTimerExpires ==
    /\ ret = "-"
    /\ a.ack_timer
    /\ a' = [a EXCEPT !.ack_timer = FALSE, !.ack_timeout_dispatched = TRUE]
    /\ UNCHANGED <<ret, last_a_rwnd, closed, n_submitted, pkt>>

\* the callback of the ack timer gets the lock: on_ack_timeout runs
AckTimeout ==
    /\ ret = "-"
    /\ a.ack_timeout_dispatched
    /\ a' = on_ack_timeout([a EXCEPT !.ack_timeout_dispatched = FALSE])
    /\ UNCHANGED <<ret, last_a_rwnd, closed, n_submitted, pkt>>

\* one pass of the write loop: gather_outbound, then (spec-modelled) the SACK
RecvWriteLoopPass ==
    /\ ret = "-"
    /\ a.awake
    /\ a' = gather_outbound_sack_packets(gather_outbound([a EXCEPT !.awake = FALSE]).a)
    /\ UNCHANGED <<ret, last_a_rwnd, closed, n_submitted, pkt>>

NextRecv ==
    \/ \E d \in RecvDataInputs(a) : RecvData(d)
    \/ \E c \in ForwardTsnInputs(a) : RecvForwardTsn(c)
    \/ \E p \in ResetRequestInputs(a) : RecvResetRequest(p)
    \/ \E si \in {0, 1} : ReadStream(si)
    \/ AckTimerExpires
    \/ AckTimeout
    \/ RecvWriteLoopPass

SpecRecv == InitRecv /\ [][NextRecv]_vars

---------------------------------------------------------------------------
(* Congestion avoidance on an established association: the peer's INIT-ACK  *)
(* advertises less than the initial cwnd, so that cwnd > ssthresh from the  *)
(* start; up to MaxAvoid chunks of the largest payload are sent, promoted   *)
(* and acknowledged, cumulatively or by gap-ack blocks, by SACKs that       *)
(* advertise a window above cwnd.                                           *)

MaxAvoid == 6

\* the largest user data of a chunk: max_payload_size
AvoidChunkLen == INITIAL_MTU - (COMMON_HEADER_SIZE + DATA_CHUNK_HEADER_SIZE)

\* a_rwnd of the peer's INIT-ACK and of its SACKs
AvoidInitAckRwnd == 3000
AvoidSackRwnd == 6000

\* gap-ack blocks of one TSN each
AvoidGapChoices ==
    {<<>>} \cup {<<[start |-> g, end |-> g]>> : g \in 2..4}

\* the SACKs of the peer: the cumulative ack is at the ack point or up to
\* four TSNs ahead of it
AvoidSackInputs(s) ==
    {[cumulative_tsn_ack |-> Add32(s.cumulative_tsn_ack_point, k),
      advertised_receiver_window_credit |-> AvoidSackRwnd,
      gap_ack_blocks |-> g] :
        k \in 0..4, g \in AvoidGapChoices}

InitAvoid ==
    /\ a = [EstablishedAssociation(TsnModulus - 3, AvoidInitAckRwnd, FALSE) EXCEPT
               !.streams = DataStreams]
    /\ ret = "-"
    /\ last_a_rwnd = -1
    /\ closed = FALSE
    /\ n_submitted = 0
    /\ pkt = NoPacket

\* the user sends one chunk on the reliable stream
AvoidSend ==
    /\ n_submitted < MaxAvoid
    /\ a' = send_payload_data(a, <<[si |-> 0, len |-> AvoidChunkLen]>>).a
    /\ n_submitted' = n_submitted + 1
    /\ UNCHANGED <<ret, last_a_rwnd, closed, pkt>>

AvoidSack(d) ==
    /\ pq_len(a.inflight_queue) > 0
    /\ a' = handle_sack(a, d).a
    /\ ret' = handle_sack(a, d).ret
    /\ UNCHANGED <<last_a_rwnd, closed, n_submitted, pkt>>

NextAvoid ==
    \/ AvoidSend
    \/ DataPromote
    \/ \E d \in AvoidSackInputs(a) : AvoidSack(d)

SpecAvoid == InitAvoid /\ [][NextAvoid]_vars

---------------------------------------------------------------------------
(* Properties of the association state machine and of the shutdown         *)
(* sequence.  A property about a method is stated over what the method     *)
(* yields in every reachable state, for every input of the model.          *)

\* SACKs without gap-ack blocks whose cumulative ack is anywhere around the
\* ack point: well behind it, well ahead of it and half the TSN space away
AnySackInputs(s) ==
    {[cumulative_tsn_ack |-> Add32(s.cumulative_tsn_ack_point, k),
      advertised_receiver_window_credit |-> w,
      gap_ack_blocks |-> <<>>] :
        k \in ((TsnModulus - (MaxSubmitted + 1))..(TsnModulus - 1))
              \cup (0..(MaxSubmitted + 1))
              \cup ((TsnHalf - 1)..(TsnHalf + 1)),
        w \in SackRwnds}

\* the state that a call leaves is the one it found or makes a pair of T
\* with it
StateChangesWithin(s, s2, T) == s2.state # s.state => <<s.state, s2.state>> \in T

\* the transitions section 4.1 lists for these methods
ListedTransitions ==
    {<<"Established", "ShutdownReceived">>, <<"ShutdownPending", "ShutdownSent">>,
     <<"ShutdownReceived", "ShutdownAckSent">>, <<"ShutdownSent", "ShutdownAckSent">>}
        \cup {<<from, "Closed">> : from \in AssociationStates}

\* C1, as stated: whenever close, handle_sack, handle_shutdown,
\* handle_shutdown_ack or handle_shutdown_complete changes the state, the pair
\* (state before, state after) is one of the listed transitions; the pair
\* Established -> ShutdownAckSent never occurs.
C1_OnlyListedTransitions ==
    /\ StateChangesWithin(a, close(a), ListedTransitions)
    /\ StateChangesWithin(a, handle_shutdown(a), ListedTransitions)
    /\ StateChangesWithin(a, handle_shutdown_ack(a), ListedTransitions)
    /\ StateChangesWithin(a, handle_shutdown_complete(a), ListedTransitions)
    /\ \A d \in SackInputs(a) :
           StateChangesWithin(a, handle_sack(a, d).a, ListedTransitions)

\* C1, amended: whenever one of the five methods changes the state, the pair
\* (state before, state after) is one of the listed transitions or
\* Established -> ShutdownAckSent, which handle_shutdown takes when the
\* inflight queue is empty.
C1_ListedTransitionsOrDirectAck ==
    /\ StateChangesWithin(a, close(a), ListedTransitions)
    /\ StateChangesWithin(a, handle_shutdown(a),
                          IF pq_len(a.inflight_queue) = 0
                          THEN ListedTransitions
                                   \cup {<<"Established", "ShutdownAckSent">>}
                          ELSE ListedTransitions)
    /\ StateChangesWithin(a, handle_shutdown_ack(a), ListedTransitions)
    /\ StateChangesWithin(a, handle_shutdown_complete(a), ListedTransitions)
    /\ \A d \in SackInputs(a) :
           StateChangesWithin(a, handle_sack(a, d).a, ListedTransitions)

\* a SHUTDOWN arrives in Established with nothing in flight
C1_Witness ==
    /\ a.state = "Established"
    /\ pq_len(a.inflight_queue) = 0
    /\ handle_shutdown(a).state = "ShutdownAckSent"

C3_GatherEmitsShutdownComplete ==
    (~closed /\ a.state = "ShutdownSent" /\ a.will_send_shutdown_complete /\ a.awake) =>
        LET r == gather_outbound([a EXCEPT !.awake = FALSE])
        IN /\ ~r.ok
           /\ \E i \in DOMAIN r.raw_packets : r.raw_packets[i] = "SHUTDOWN-COMPLETE"

\* what a processed SACK leads to, for C4
C4_PostSack(s, r) ==
    /\ (pq_len(r.a.inflight_queue) = 0 /\ s.state = "ShutdownPending") =>
           (r.a.will_send_shutdown /\ r.a.state = "ShutdownSent" /\ r.a.awake)
    /\ (pq_len(r.a.inflight_queue) = 0 /\ s.state = "ShutdownReceived") =>
           (r.a.will_send_shutdown_ack /\ r.a.state = "ShutdownAckSent" /\ r.a.awake)
    /\ pq_len(r.a.inflight_queue) > 0 =>
           /\ r.a.state = s.state
           /\ r.a.will_send_shutdown = s.will_send_shutdown
           /\ r.a.will_send_shutdown_ack = s.will_send_shutdown_ack

\* C4: after handle_sack has processed a SACK that leaves the inflight queue
\* empty, an entry state of ShutdownPending gives will_send_shutdown and
\* ShutdownSent, one of ShutdownReceived gives will_send_shutdown_ack and
\* ShutdownAckSent, and the write loop is woken in both cases; when the
\* inflight queue is not empty the state and both flags are as before.
C4_PostSackShutdown ==
    \A d \in SackInputs(a) :
        LET r == handle_sack(a, d) IN r.processed => C4_PostSack(a, r)

\* a SACK empties the inflight queue in ShutdownReceived while the write loop
\* sleeps
C4_Witness ==
    /\ a.state = "ShutdownReceived"
    /\ ~a.awake
    /\ pq_len(a.inflight_queue) > 0
    /\ \E d \in SackInputs(a) :
           /\ handle_sack(a, d).processed
           /\ pq_len(handle_sack(a, d).a.inflight_queue) = 0
           /\ handle_sack(a, d).a.state = "ShutdownAckSent"

\* no retransmission timer and no ack timer runs
NoTimerRunning(s) ==
    /\ \A id \in RtxTimerIds : ~timer_running(s, id)
    /\ ~s.ack_timer

---------------------------------------------------------------------------
(* Properties of the local API, of check_packet and of the SACK pipeline *)

\* C6: in any state other than Established, send_payload_data and
\* send_reset_request return their typed error and the association they
\* leave is the one they found: queues, state, counters and the wake-up flag
\* of the write loop are as before.
C6_SendOutsideEstablishedRejected ==
    a.state # "Established" =>
        /\ \A chunks \in DataInputs :
               send_payload_data(a, chunks) =
                   [a |-> a, ret |-> "ErrPayloadDataStateNotExist"]
        /\ \A si \in DOMAIN StreamsOpened :
               send_reset_request(a, si) =
                   [a |-> a, ret |-> "ErrResetPacketInStateNotExist"]

\* the user sends while the association shuts down, with data still in
\* flight and the write loop asleep
C6_Witness ==
    /\ a.state = "ShutdownPending"
    /\ ~a.awake
    /\ pq_len(a.inflight_queue) > 0
    /\ \E chunks \in DataInputs :
           send_payload_data(a, chunks).ret = "ErrPayloadDataStateNotExist"
    /\ \E si \in DOMAIN StreamsOpened :
           send_reset_request(a, si).ret = "ErrResetPacketInStateNotExist"

\* the packets section 4.2 lets through
Acceptable(p) ==
    /\ p.source_port # 0
    /\ p.destination_port # 0
    /\ (\E i \in DOMAIN p.chunks : p.chunks[i] = "ChunkInit") =>
           (Len(p.chunks) = 1 /\ p.verification_tag = 0)

C8_AckPointNonDecreasing ==
    \A d \in AnySackInputs(a) :
        LET r == handle_sack(a, d)
        IN /\ sna32lte(a.cumulative_tsn_ack_point, r.a.cumulative_tsn_ack_point)
           /\ sna32lt(d.cumulative_tsn_ack, a.cumulative_tsn_ack_point) => r.a = a

\* the ack point is the largest TSN: a SACK behind it is discarded, another
\* one moves it forward, across the wrap, to 0
C8_Witness ==
    /\ a.state = "Established"
    /\ a.cumulative_tsn_ack_point = TsnModulus - 1
    /\ \E d \in AnySackInputs(a) :
           /\ d.cumulative_tsn_ack = TsnModulus - 2
           /\ handle_sack(a, d).a = a
    /\ \E d \in AnySackInputs(a) :
           /\ handle_sack(a, d).processed
           /\ handle_sack(a, d).a.cumulative_tsn_ack_point = 0

\* C9, as stated: after a SACK that handle_sack has processed, rwnd plus the
\* bytes outstanding in the inflight queue is the a_rwnd of that SACK.
C9_RwndPlusOutstandingIsARwnd ==
    \A d \in SackInputs(a) :
        LET r == handle_sack(a, d)
        IN r.processed =>
               r.a.rwnd + pq_get_num_bytes(r.a.inflight_queue) =
                   d.advertised_receiver_window_credit

\* C9, amended: after a SACK that handle_sack has processed, rwnd is the
\* a_rwnd of that SACK minus the bytes outstanding in the inflight queue, and
\* 0 when more bytes are outstanding than a_rwnd; so rwnd plus the bytes
\* outstanding is a_rwnd whenever the bytes outstanding do not exceed it.
C9_RwndIsARwndMinusOutstanding ==
    \A d \in SackInputs(a) :
        LET r == handle_sack(a, d)
            bytes_outstanding == pq_get_num_bytes(r.a.inflight_queue)
        IN r.processed =>
               /\ r.a.rwnd = Max(0, d.advertised_receiver_window_credit - bytes_outstanding)
               /\ bytes_outstanding <= d.advertised_receiver_window_credit =>
                      r.a.rwnd + bytes_outstanding = d.advertised_receiver_window_credit

\* a processed SACK advertises less than what is still outstanding
C9_Witness ==
    \E d \in SackInputs(a) :
        /\ handle_sack(a, d).processed
        /\ d.advertised_receiver_window_credit > 0
        /\ pq_get_num_bytes(handle_sack(a, d).a.inflight_queue) >
               d.advertised_receiver_window_credit
        /\ handle_sack(a, d).a.rwnd = 0

\* C10, as stated: once a SACK has set rwnd, rwnd is the a_rwnd of the last
\* such SACK minus the bytes outstanding in the inflight queue, and 0 when
\* that is negative, in every state, also after pending chunks have been
\* promoted to the inflight queue.
C10_RwndTracksOutstanding ==
    last_a_rwnd >= 0 =>
        a.rwnd = Max(0, last_a_rwnd - pq_get_num_bytes(a.inflight_queue))

---------------------------------------------------------------------------
(* Properties of the congestion window, the ack points and the TSNs *)

\* C11: create_association sets cwnd to min(4*MTU, max(2*MTU, 4380)), and in
\* every state reached by SACKs, T3-rtx timeouts and fast-recovery entries
\* cwnd is at least the MTU.
C11_CwndAtLeastMtu ==
    /\ a.cwnd >= a.mtu
    /\ \A t \in InitialTsns :
          LET c == create_association(t)
          IN c.cwnd = IF 2 * c.mtu >= 4380 THEN 2 * c.mtu
                      ELSE IF 4 * c.mtu <= 4380 THEN 4 * c.mtu
                      ELSE 4380

\* fast recovery has been entered and T3-rtx has since expired: cwnd is at
\* its floor, the MTU
C11_Witness ==
    /\ a.in_fast_recovery
    /\ a.cwnd = a.mtu
    /\ a.ssthresh = 4 * a.mtu

\* C12 as stated: in every reachable state cumulative_tsn_ack_point is at or
\* behind advanced_peer_tsn_ack_point in serial-number order, whether or not
\* use_forward_tsn is set.
C12_AckPointBehindAdvancedPoint ==
    sna32lte(a.cumulative_tsn_ack_point, a.advanced_peer_tsn_ack_point)

\* C12: when use_forward_tsn is set, cumulative_tsn_ack_point is at or behind
\* advanced_peer_tsn_ack_point in serial-number order in every reachable
\* state (without it handle_sack leaves the advanced point where it was).
C12_AckPointBehindAdvancedPointWithForwardTsn ==
    a.use_forward_tsn =>
        sna32lte(a.cumulative_tsn_ack_point, a.advanced_peer_tsn_ack_point)

\* forward TSN is in use, a SACK has moved the ack point across the wrap and
\* the advanced point has gone on over an abandoned chunk
C12_Witness ==
    /\ a.use_forward_tsn
    /\ a.cumulative_tsn_ack_point = TsnModulus - 1
    /\ a.advanced_peer_tsn_ack_point = 0
    /\ pq_has(a.inflight_queue, 0)
    /\ pq_get(a.inflight_queue, 0).abandoned

\* C13: in every reachable state every TSN t of the inflight queue satisfies
\* cumulative_tsn_ack_point < t <= my_next_tsn - 1 in serial-number order,
\* whatever the interleaving of promotions and SACKs, rejected SACKs included.
C13_InflightTsnsInWindow ==
    \A t \in pq_tsns(a.inflight_queue) :
        /\ sna32lt(a.cumulative_tsn_ack_point, t)
        /\ sna32lte(t, Sub32(a.my_next_tsn, 1))

\* a SACK was rejected after its cumulative region had been popped: the ack
\* point has not moved and the chunk next to it is no longer in flight, while
\* a later chunk is
C13_Witness ==
    /\ pq_len(a.inflight_queue) > 0
    /\ ~pq_has(a.inflight_queue, Add32(a.cumulative_tsn_ack_point, 1))
    /\ a.my_next_tsn # Add32(a.cumulative_tsn_ack_point, 1)

\* C14: every data chunk promoted from the pending queue gets the TSN of the
\* chunk promoted before it plus 1 modulo 2^32, the step from 2^32-1 to 0
\* included: the promotion puts the chunk in flight under my_next_tsn and
\* leaves my_next_tsn one further, in every build.
C14_TsnsConsecutive ==
    pending_len(a.pending_queue) > 0 =>
        \A o \in move_pending_data_chunk_to_inflight_queue_builds(a) :
            /\ ~o.panic
            /\ pq_tsns(o.a.inflight_queue) = pq_tsns(a.inflight_queue) \cup {a.my_next_tsn}
            /\ o.a.my_next_tsn = Add32(a.my_next_tsn, 1)

\* the bytes newly acknowledged by the SACK that made association s2 of s
NewlyAcked(s, s2) ==
    pq_get_num_bytes(s.inflight_queue) - pq_get_num_bytes(s2.inflight_queue)

\* SACK d, of which r is the result of handle_sack in association s, is
\* processed, advances the cumulative ack point and finds s in slow start
AdvancesInSlowStart(s, d, r) ==
    /\ r.processed
    /\ sna32lt(s.cumulative_tsn_ack_point, d.cumulative_tsn_ack)
    /\ s.cwnd <= s.ssthresh

\* what slow start adds to cwnd, as stated: min(bytes newly acked, cwnd) when
\* data is pending and the sender is out of fast recovery once the
\* acknowledged chunks are gone (in_fr tells whether it is still in), nothing
\* otherwise
SlowStartGrowth(s, r, in_fr) ==
    IF pending_len(s.pending_queue) > 0 /\ ~in_fr
    THEN Min(NewlyAcked(s, r.a), s.cwnd)
    ELSE 0

\* C15 as stated: a SACK that advances the cumulative ack point while
\* cwnd <= ssthresh grows cwnd by exactly min(bytes newly acked, cwnd) when
\* data is pending and the sender is not in fast recovery and leaves it
\* unchanged otherwise, so cwnd grows by at most the bytes newly acked.
C15_SlowStartGrowthExact ==
    \A d \in DataSackInputs(a) :
        LET r == handle_sack(a, d)
            in_fr == process_selective_ack(a, d).a.in_fast_recovery
        IN AdvancesInSlowStart(a, d, r) =>
               /\ r.a.cwnd = a.cwnd + SlowStartGrowth(a, r, in_fr)
               /\ r.a.cwnd - a.cwnd <= NewlyAcked(a, r.a)

\* C15: the same for a SACK that does not make the sender enter fast
\* recovery; one that does leaves cwnd = max((cwnd + growth) / 2, 4 * mtu),
\* which may be above cwnd + bytes newly acked.
C15_SlowStartGrowthUnlessFastRecoveryEntered ==
    \A d \in DataSackInputs(a) :
        LET r == handle_sack(a, d)
            in_fr == process_selective_ack(a, d).a.in_fast_recovery
        IN AdvancesInSlowStart(a, d, r) =>
               IF ~in_fr /\ r.a.in_fast_recovery
               THEN r.a.cwnd = Max((a.cwnd + SlowStartGrowth(a, r, in_fr)) \div 2,
                                   4 * a.mtu)
               ELSE /\ r.a.cwnd = a.cwnd + SlowStartGrowth(a, r, in_fr)
                    /\ r.a.cwnd - a.cwnd <= NewlyAcked(a, r.a)

\* in slow start with data pending, a SACK advances the cumulative ack point
\* and cwnd grows by the bytes it newly acknowledges
C15_Witness ==
    \E d \in DataSackInputs(a) :
        LET r == handle_sack(a, d)
        IN /\ AdvancesInSlowStart(a, d, r)
           /\ ~r.a.in_fast_recovery
           /\ NewlyAcked(a, r.a) > 0
           /\ r.a.cwnd = a.cwnd + NewlyAcked(a, r.a)

\* the chunks of association s whose miss indicator is below 3 and is 3 in s2
ReachThree(s, s2) ==
    {t \in pq_tsns(s.inflight_queue) \cap pq_tsns(s2.inflight_queue) :
        /\ s.inflight_queue.chunk_map[t].miss_indicator < 3
        /\ s2.inflight_queue.chunk_map[t].miss_indicator = 3}

\* cwnd as process_fast_retransmission finds it for SACK d, p being the
\* result of process_selective_ack
CwndAfterAck(s, d, p) ==
    IF sna32lt(s.cumulative_tsn_ack_point, d.cumulative_tsn_ack)
    THEN on_cumulative_tsn_ack_point_advanced(
             [p.a EXCEPT !.cumulative_tsn_ack_point = d.cumulative_tsn_ack],
             p.total).cwnd
    ELSE s.cwnd

\* C16: entering fast recovery applies ssthresh = max(cwnd/2, 4*mtu),
\* cwnd = ssthresh, partial_bytes_acked = 0, fast_recover_exit_point = HTNA
\* once, however many chunks reach a miss indicator of 3 in that SACK; while
\* in_fast_recovery stays true, a SACK in which further chunks reach 3 changes
\* none of cwnd, ssthresh and fast_recover_exit_point.
C16_FastRecoveryEntryOneShot ==
    \A d \in DataSackInputs(a) :
        LET r == handle_sack(a, d)
            p == process_selective_ack(a, d)
        IN r.processed =>
               IF p.a.in_fast_recovery
               THEN /\ r.a.in_fast_recovery
                    /\ r.a.cwnd = a.cwnd
                    /\ r.a.ssthresh = a.ssthresh
                    /\ r.a.fast_recover_exit_point = a.fast_recover_exit_point
               ELSE IF ReachThree(a, r.a) # {}
               THEN /\ r.a.in_fast_recovery
                    /\ r.a.ssthresh = Max(CwndAfterAck(a, d, p) \div 2, 4 * a.mtu)
                    /\ r.a.cwnd = r.a.ssthresh
                    /\ r.a.partial_bytes_acked = 0
                    /\ r.a.fast_recover_exit_point = p.htna
               ELSE /\ ~r.a.in_fast_recovery
                    /\ r.a.ssthresh = a.ssthresh

\* in fast recovery, a SACK moves the cumulative ack point and brings the
\* miss indicator of one more chunk to 3
C16_Witness ==
    /\ a.in_fast_recovery
    /\ \E d \in DataSackInputs(a) :
          /\ handle_sack(a, d).processed
          /\ handle_sack(a, d).a.in_fast_recovery
          /\ ReachThree(a, handle_sack(a, d).a) # {}

---------------------------------------------------------------------------
(* Properties of retransmission and of the write loop's gathering *)

\* the chunks of the inflight queue of s that are abandoned
Abandoned(s) ==
    {t \in pq_tsns(s.inflight_queue) : s.inflight_queue.chunk_map[t].abandoned}

\* the T3-rtx handler, run on association s, leaves every abandoned chunk
\* without the retransmit flag
T3KeepsAbandonedUnmarked(s) ==
    \A t \in Abandoned(s) :
        ~on_retransmission_timeout(s, "T3RTX").inflight_queue.chunk_map[t].retransmit

\* C17 as stated: the T3-rtx handler does not set the retransmit flag of an
\* abandoned chunk, and no chunk that get_data_packets_to_retransmit returns
\* is abandoned.
C17_AbandonedNeverReturned ==
    /\ T3KeepsAbandonedUnmarked(a)
    /\ LET r == get_data_packets_to_retransmit(a)
       IN ~r.hangs => \A i \in 1..Len(r.chunks) : ~r.chunks[i].abandoned

\* C17: the T3-rtx handler does not set the retransmit flag of an abandoned
\* chunk, no abandoned chunk has it, and no chunk that
\* get_data_packets_to_retransmit returns was abandoned when the call began
\* (a chunk that reaches its retransmission limit in the call is returned
\* with its abandoned flag set).
C17_AbandonedBeforeCallNeverReturned ==
    /\ T3KeepsAbandonedUnmarked(a)
    /\ \A t \in Abandoned(a) : ~a.inflight_queue.chunk_map[t].retransmit
    /\ LET r == get_data_packets_to_retransmit(a)
       IN ~r.hangs =>
              \A i \in 1..Len(r.chunks) :
                  /\ r.chunks[i].tsn \notin Abandoned(a)
                  /\ r.chunks[i].abandoned =>
                         r.chunks[i].nsent
                            >= a.streams[r.chunks[i].si].reliability_value

\* a chunk was abandoned by its retransmission and is still in flight with
\* another chunk, which the T3-rtx handler marks for retransmission
C17_Witness ==
    /\ \E t \in Abandoned(a) : a.inflight_queue.chunk_map[t].nsent > 1
    /\ \E t \in pq_tsns(a.inflight_queue) :
          /\ ~a.inflight_queue.chunk_map[t].retransmit
          /\ on_retransmission_timeout(a, "T3RTX").inflight_queue.chunk_map[t].retransmit

\* C18: whenever a SACK advances the cumulative ack point and leaves the
\* inflight queue non-empty, the T3-rtx timer is running afterwards (so that
\* a chunk that stays unacknowledged is in the end marked for retransmission
\* by a T3-rtx timeout).
C18_T3RunningAfterAdvance ==
    \A d \in SackInputs(a) :
        LET r == handle_sack(a, d)
        IN /\ r.processed
           /\ sna32lt(a.cumulative_tsn_ack_point, d.cumulative_tsn_ack)
           /\ pq_len(r.a.inflight_queue) > 0
           => r.a.t3rtx

\* what one pass is to emit after the control packets, by section 4.6: the
\* data marked for retransmission, the new data, the reconfig retransmission,
\* the fast retransmission, the FORWARD-TSN and the shutdown-family packet,
\* each when it is scheduled, in this order
GatherOrder(s) ==
    (IF \E t \in pq_tsns(s.inflight_queue) : s.inflight_queue.chunk_map[t].retransmit
     THEN <<"DATA-RETRANSMIT">> ELSE <<>>)
    \o (IF pop_pending_data_chunks_to_send(s).chunks # <<>> THEN <<"DATA">> ELSE <<>>)
    \o (IF s.will_retransmit_reconfig THEN <<"RECONFIG">> ELSE <<>>)
    \o (IF s.will_retransmit_fast THEN <<"DATA-FAST-RETRANSMIT">> ELSE <<>>)
    \o (IF s.will_send_forward_tsn THEN <<"FORWARD-TSN">> ELSE <<>>)
    \o gather_outbound_shutdown_packets(s, <<>>).raw_packets

\* C19: one gather_outbound pass emits the queued control packets first, in
\* the order they were enqueued, and then, in Established, ShutdownPending,
\* ShutdownSent and ShutdownReceived, the scheduled packets in the fixed
\* order: retransmitted data, new data and reconfig, fast retransmission,
\* FORWARD-TSN, shutdown-family packet.
C19_GatherEmitsInOrder ==
    LET r == gather_outbound(a)
    IN /\ Len(r.raw_packets) >= Len(a.control_queue)
       /\ SubSeq(r.raw_packets, 1, Len(a.control_queue)) = a.control_queue
       /\ a.state \in {"Established", "ShutdownPending", "ShutdownSent", "ShutdownReceived"}
              => r.raw_packets = a.control_queue \o GatherOrder(a)

---------------------------------------------------------------------------
(* Properties of the promotion from the pending to the inflight queue *)

\* the position in the pending queue of the first chunk that carries data
\* (0 when there is none)
HeadData(q) ==
    LET I == {i \in DOMAIN q : q[i].len > 0}
    IN IF I = {} THEN 0 ELSE CHOOSE i \in I : \A j \in I : i <= j

\* the pending queue holds data and its first chunk passes neither limit
Blocked(s) ==
    /\ HeadData(s.pending_queue) # 0
    /\ LET c == s.pending_queue[HeadData(s.pending_queue)]
       IN \/ pq_get_num_bytes(s.inflight_queue) + c.len > s.cwnd
          \/ c.len > s.rwnd

\* the bytes of the first n chunks promoted by a call with result r
RECURSIVE PromotedBytes(_, _)
PromotedBytes(r, n) ==
    IF n = 0 THEN 0
    ELSE PromotedBytes(r, n - 1) + r.a.inflight_queue.chunk_map[r.chunks[n]].len

\* C20: when the pending queue holds data and no chunk can be promoted under
\* the limits of cwnd and rwnd, pop_pending_data_chunks_to_send promotes
\* exactly one chunk if the inflight queue is empty and none if it is not;
\* otherwise every chunk promoted passed both limits when it was promoted:
\* the bytes in flight with it were within cwnd and its length within the
\* rwnd left by the chunks promoted before it.
C20_ZeroWindowProbe ==
    LET r == pop_pending_data_chunks_to_send(a)
        h == HeadData(a.pending_queue)
    IN IF Blocked(a)
       THEN IF pq_len(a.inflight_queue) = 0
            THEN /\ r.chunks = <<a.my_next_tsn>>
                 /\ pq_tsns(r.a.inflight_queue) = {a.my_next_tsn}
                 /\ r.a.inflight_queue.chunk_map[a.my_next_tsn].len = a.pending_queue[h].len
                 /\ r.a.pending_queue = SubSeq(a.pending_queue, h + 1, Len(a.pending_queue))
            ELSE /\ r.chunks = <<>>
                 /\ r.a.inflight_queue = a.inflight_queue
                 /\ r.a.pending_queue = SubSeq(a.pending_queue, h, Len(a.pending_queue))
       ELSE \A i \in 1..Len(r.chunks) :
                /\ pq_has(r.a.inflight_queue, r.chunks[i])
                /\ pq_get_num_bytes(a.inflight_queue) + PromotedBytes(r, i) <= a.cwnd
                /\ r.a.inflight_queue.chunk_map[r.chunks[i]].len
                       <= a.rwnd - PromotedBytes(r, i - 1)

\* the probe happens: data is pending, nothing is in flight and the first
\* chunk does not fit the window
C20_Witness ==
    /\ Blocked(a)
    /\ pq_len(a.inflight_queue) = 0
    /\ Len(pop_pending_data_chunks_to_send(a).chunks) = 1

---------------------------------------------------------------------------
(* Properties of bundling and of partial reliability *)

\* C21: for every list of data chunks each of which fits in a packet alone,
\* every packet returned by bundle_data_chunks_into_packets has a total size
\* of 12 + the sum over its chunks of (16 + user data length) of at most the
\* MTU, and the chunks appear in the packets in their input order.
C21_BundledPacketsWithinMtu ==
    pkt.called =>
        /\ \A i \in 1..Len(pkt.packets) : PacketSize(pkt.packets[i]) <= a.mtu
        /\ Flatten(pkt.packets) = pkt.chunks

\* whether the chunk of the call is to be abandoned, by section 4.2: forward
\* TSN is in use, the chunk is not a DCEP chunk and its stream is Rexmit with
\* nsent >= reliability-value, or Timed with elapsed >= reliability-value ms
ToBeAbandoned ==
    /\ a.use_forward_tsn
    /\ pkt.payload_type # "Dcep"
    /\ pkt.c.si \in DOMAIN a.streams
    /\ LET s == a.streams[pkt.c.si]
       IN \/ s.reliability_type = "Rexmit" /\ pkt.c.nsent >= s.reliability_value
          \/ s.reliability_type = "Timed" /\ pkt.elapsed >= s.reliability_value

\* C22: check_partial_reliability_status marks a chunk abandoned exactly when
\* forward TSN is in use, the chunk is not a DCEP chunk and its stream is
\* Rexmit with nsent >= reliability-value or Timed with elapsed time since
\* the first send >= reliability-value milliseconds; an abandoned flag that
\* is set stays set, and nothing else of the chunk changes.
C22_AbandonedExactlyWhenDue ==
    pkt.called =>
        /\ pkt.after.abandoned = (pkt.c.abandoned \/ ToBeAbandoned)
        /\ pkt.after = [pkt.c EXCEPT !.abandoned = pkt.after.abandoned]

---------------------------------------------------------------------------
(* Properties of the receiving side *)

\* C23: a FORWARD-TSN received when use_forward_tsn is false produces exactly
\* one reply packet, carrying an ERROR chunk with the unrecognized-chunk-type
\* cause, and changes nothing else: peer_last_tsn, the payload queue, the
\* streams, ack_state and the ack-trigger flags (and every other field of
\* the association) are unchanged.
C23_ForwardTsnNotInUseRejected ==
    ~a.use_forward_tsn =>
        \A c \in ForwardTsnInputs(a) :
            LET r == handle_forward_tsn(a, c)
            IN /\ r.returns
               /\ r.some
               /\ r.reply = <<"ERROR(UnrecognizedChunkType)">>
               /\ r.a = a

\* a FORWARD-TSN has been answered by an ERROR while data is waiting in a
\* reassembly queue, peer_last_tsn has moved and an ack is being delayed
C23_Witness ==
    /\ ~a.use_forward_tsn
    /\ \E i \in DOMAIN a.control_queue : a.control_queue[i] = "ERROR(UnrecognizedChunkType)"
    /\ a.streams[0].reassembly_queue # <<>>
    /\ a.peer_last_tsn # RecvPeerLastTsn
    /\ a.ack_state = "Delay"
    /\ a.ack_timer

\* C29: with forward TSN in use, a FORWARD-TSN whose new cumulative TSN is
\* <= peer_last_tsn in serial order is treated as a duplicate: ack_state
\* becomes Immediate, the ack timer is stopped and the write loop is woken,
\* while peer_last_tsn, the payload queue, the streams and the stored reconfig
\* requests (and every other field) are left unchanged and no reply packet is
\* produced.
C29_OutOfDateForwardTsnOnlyAcks ==
    a.use_forward_tsn =>
        \A c \in ForwardTsnInputs(a) :
            sna32lte(c.new_cumulative_tsn, a.peer_last_tsn) =>
                LET r == handle_forward_tsn(a, c)
                IN /\ r.returns
                   /\ ~r.some
                   /\ r.reply = <<>>
                   /\ r.a = [a EXCEPT !.ack_state = "Immediate",
                                      !.ack_timer = FALSE,
                                      !.awake = TRUE]

\* an out-of-date FORWARD-TSN arrives while an ack is being delayed, the
\* write loop sleeps, a reset request is stored and data waits to be read
C29_Witness ==
    /\ a.use_forward_tsn
    /\ a.ack_state = "Delay"
    /\ a.ack_timer
    /\ ~a.awake
    /\ DOMAIN a.reconfig_requests # {}
    /\ a.streams[0].reassembly_queue # <<>>
    /\ \E c \in ForwardTsnInputs(a) :
          /\ c.new_cumulative_tsn # a.peer_last_tsn
          /\ sna32lte(c.new_cumulative_tsn, a.peer_last_tsn)
          /\ handle_forward_tsn(a, c).a.ack_state = "Immediate"

\* the number of consecutive TSNs tsn + 1, tsn + 2, ... in the queue q
RECURSIVE RunLength(_, _)
RunLength(q, tsn) ==
    IF pq_has(q, Add32(tsn, 1)) THEN 1 + RunLength(q, Add32(tsn, 1)) ELSE 0

\* the TSNs tsn + 1 .. tsn + n
RunTsns(tsn, n) == {Add32(tsn, k) : k \in 1..n}

\* C24: when handle_peer_last_tsn_and_acknowledgement returns, peer_last_tsn
\* has advanced over exactly the maximal run of consecutive TSNs old + 1,
\* old + 2, ... that were in the payload queue, those TSNs have been removed
\* from the queue and peer_last_tsn + 1 is not in the queue; if old + 1 was
\* absent, peer_last_tsn is unchanged.  (Stated for the call that ends
\* handle_data, for every DATA chunk that may arrive.)
C24_PeerLastTsnAdvancesOverRun ==
    \A d \in RecvDataInputs(a) :
        LET p == handle_data_deliver(a, d)
            r == handle_peer_last_tsn_and_acknowledgement(p.a, d.immediate_sack)
            n == RunLength(p.a.payload_queue, p.a.peer_last_tsn)
        IN (~p.discarded /\ r.returns) =>
               /\ r.a.peer_last_tsn = Add32(p.a.peer_last_tsn, n)
               /\ pq_tsns(r.a.payload_queue) =
                      pq_tsns(p.a.payload_queue) \ RunTsns(p.a.peer_last_tsn, n)
               /\ ~pq_has(r.a.payload_queue, Add32(r.a.peer_last_tsn, 1))

\* C25: the loop that advances peer_last_tsn at the end of handle_data and of
\* handle_forward_tsn terminates for every content of the payload queue,
\* the empty queue and a queue without peer_last_tsn + 1 included, after at
\* most as many iterations as there are chunks in the queue plus one.
C25_AdvanceLoopTerminates ==
    /\ \A d \in RecvDataInputs(a) :
           LET p == handle_data_deliver(a, d)
               l == hplt_loop(p.a, <<>>, 0)
           IN ~p.discarded =>
                  /\ l.returns
                  /\ l.iterations <= pq_len(p.a.payload_queue) + 1
    /\ a.use_forward_tsn =>
           \A c \in ForwardTsnInputs(a) :
               sna32gt(c.new_cumulative_tsn, a.peer_last_tsn) =>
                   LET s1 == hft_advance(a, c.new_cumulative_tsn)
                       l == hplt_loop(s1, <<>>, 0)
                   IN /\ l.returns
                      /\ l.iterations <= pq_len(s1.payload_queue) + 1

\* whether handle_data is to accept the chunk d, by section 4.2: the payload
\* queue can accept it and the receiver window credit is > 0 or the TSN is
\* below the most recent TSN received
Accepted(s, d) ==
    /\ pq_can_push(s.payload_queue, d.tsn, s.peer_last_tsn)
    /\ \/ get_my_receiver_window_credit(s) > 0
       \/ /\ pq_get_last_tsn_received(s.payload_queue).some
          /\ sna32lt(d.tsn, pq_get_last_tsn_received(s.payload_queue).tsn)

\* C26: handle_data adds a chunk to the payload queue and forwards it to its
\* stream exactly when the payload queue can accept it and either the
\* receiver window credit is > 0 or the chunk is a gap-filler; in every other
\* case the payload queue and the reassembly queues are unchanged.
C26_DataAcceptedExactlyWhenDue ==
    \A d \in RecvDataInputs(a) :
        LET p == handle_data_deliver(a, d)
            r == handle_data(a, d)
        IN IF Accepted(a, d)
           THEN /\ pq_has(p.a.payload_queue, d.tsn)
                /\ d.si \in DOMAIN p.a.streams
                /\ \E i \in DOMAIN p.a.streams[d.si].reassembly_queue :
                      p.a.streams[d.si].reassembly_queue[i].tsn = d.tsn
           ELSE /\ r.returns
                /\ r.a.payload_queue = a.payload_queue
                /\ r.a.streams = a.streams

\* C27: the ack mode overrides the ack decision for every data chunk handled,
\* whatever the ack state, the chunk's immediate-sack bit and the gaps: with
\* AlwaysDelay the chunk triggers a delayed ack only (immediate_ack_triggered
\* is not set), and with NoDelay it triggers an immediate ack.
C27_AckModeOverrides ==
    \A d \in RecvDataInputs(a) :
        LET r == handle_data(handle_chunk_start(a), d)
        IN (r.returns /\ r.some) =>
               /\ a.ack_mode = "AlwaysDelay" =>
                      (r.a.delayed_ack_triggered /\ ~r.a.immediate_ack_triggered)
               /\ a.ack_mode = "NoDelay" => r.a.immediate_ack_triggered

\* C28: when the ack timer fires, ack_state is set to Immediate and the write
\* loop is woken only if ack_state was Delay; a fire that finds ack_state
\* Idle or Immediate leaves ack_state unchanged.
C28_AckTimeoutOnlyFromDelay ==
    a.ack_timeout_dispatched =>
        LET s == on_ack_timeout(a)
        IN IF a.ack_state = "Delay"
           THEN s.ack_state = "Immediate" /\ s.awake
           ELSE s.ack_state = a.ack_state

\* C30: with forward TSN in use, when handle_forward_tsn has processed a
\* FORWARD-TSN whose new cumulative TSN is > peer_last_tsn, peer_last_tsn is
\* >= the new cumulative TSN, the payload queue holds no TSN <= peer_last_tsn
\* and peer_last_tsn exceeds the new cumulative TSN by the run of consecutive
\* TSNs that were in the payload queue right after the new cumulative TSN.
C30_ForwardTsnAdvances ==
    a.use_forward_tsn =>
        \A c \in ForwardTsnInputs(a) :
            sna32gt(c.new_cumulative_tsn, a.peer_last_tsn) =>
                LET r == handle_forward_tsn(a, c)
                IN /\ r.returns
                   /\ sna32gte(r.a.peer_last_tsn, c.new_cumulative_tsn)
                   /\ \A t \in pq_tsns(r.a.payload_queue) :
                          sna32gt(t, r.a.peer_last_tsn)
                   /\ r.a.peer_last_tsn =
                          Add32(c.new_cumulative_tsn,
                                RunLength(a.payload_queue, c.new_cumulative_tsn))

\* whether the outgoing reset request p has been executed between s and s2:
\* its streams are unregistered and the request is no longer stored
Executed(s2, p) ==
    /\ p.stream_identifiers \cap DOMAIN s2.streams = {}
    /\ p.reconfig_request_sequence_number \notin DOMAIN s2.reconfig_requests

\* C31: an outgoing reset request is executed (its streams unregistered, the
\* request removed from reconfig_requests, a SuccessPerformed response)
\* exactly when its sender_last_tsn is <= peer_last_tsn; otherwise it stays
\* stored and the response is InProgress.  A stored request is executed by
\* the first later advance of peer_last_tsn (by DATA or FORWARD-TSN) that
\* reaches its sender_last_tsn, and the responses produced during an advance
\* are only for requests whose sender_last_tsn is then <= peer_last_tsn.
C31_ResetExecutedWhenReached ==
    /\ \A p \in ResetRequestInputs(a) :
          LET r == handle_reconfig_param(a, p)
          IN IF sna32lte(p.sender_last_tsn, a.peer_last_tsn)
             THEN /\ Executed(r.a, p)
                  /\ r.resp = "RECONFIG(SuccessPerformed)"
             ELSE /\ r.a = [a EXCEPT !.reconfig_requests =
                                MapPut(@, p.reconfig_request_sequence_number, p)]
                  /\ r.resp = "RECONFIG(InProgress)"
    /\ \A k \in DOMAIN a.reconfig_requests :
          LET p == a.reconfig_requests[k] IN
          /\ \A d \in RecvDataInputs(a) :
                LET r == handle_data(a, d)
                IN r.returns =>
                       IF sna32lte(p.sender_last_tsn, r.a.peer_last_tsn)
                       THEN /\ Executed(r.a, p)
                            /\ r.reply = <<"RECONFIG(SuccessPerformed)">>
                       ELSE /\ r.a.reconfig_requests = a.reconfig_requests
                            /\ r.a.streams[1] = a.streams[1]
                            /\ r.reply = <<>>
          /\ \A c \in ForwardTsnInputs(a) :
                LET r == handle_forward_tsn(a, c)
                IN (a.use_forward_tsn /\ sna32gte(c.new_cumulative_tsn, p.sender_last_tsn)) =>
                       /\ r.returns
                       /\ Executed(r.a, p)
                       /\ r.reply = <<"RECONFIG(SuccessPerformed)">>

---------------------------------------------------------------------------
(* Properties of congestion avoidance, of fast recovery and of the miss     *)
(* indicators                                                               *)

\* SACK d, of which r is the result of handle_sack in association s, is
\* processed, advances the cumulative ack point and finds s in congestion
\* avoidance
AdvancesInCongestionAvoidance(s, d, r) ==
    /\ r.processed
    /\ sna32lt(s.cumulative_tsn_ack_point, d.cumulative_tsn_ack)
    /\ s.cwnd > s.ssthresh

\* congestion avoidance as stated, between association s and the result r
\* of a SACK: partial_bytes_acked takes the bytes newly acked; when it is
\* then >= cwnd with data pending, it loses the old cwnd and cwnd gains mtu
CongestionAvoidanceStep(s, r) ==
    LET pba == s.partial_bytes_acked + NewlyAcked(s, r.a)
    IN IF pba >= s.cwnd /\ pending_len(s.pending_queue) > 0
       THEN /\ r.a.partial_bytes_acked = pba - s.cwnd
            /\ r.a.cwnd = s.cwnd + s.mtu
       ELSE /\ r.a.partial_bytes_acked = pba
            /\ r.a.cwnd = s.cwnd

\* C32 as stated: a SACK that advances the cumulative ack point while
\* cwnd > ssthresh adds the bytes it newly acknowledges to
\* partial_bytes_acked; if partial_bytes_acked is then >= cwnd and the
\* pending queue is non-empty, partial_bytes_acked is reduced by the old cwnd
\* and cwnd grows by exactly mtu; otherwise cwnd is unchanged.
C32_CongestionAvoidanceExact ==
    \A d \in AvoidSackInputs(a) :
        LET r == handle_sack(a, d)
        IN AdvancesInCongestionAvoidance(a, d, r) => CongestionAvoidanceStep(a, r)

\* C32: the same for a SACK that does not make the sender enter fast
\* recovery; one that does leaves partial_bytes_acked = 0 and
\* cwnd = ssthresh = max(cwnd / 2, 4 * mtu), cwnd being the one that
\* congestion avoidance has left.
C32_CongestionAvoidanceUnlessFastRecoveryEntered ==
    \A d \in AvoidSackInputs(a) :
        LET r == handle_sack(a, d)
            p == process_selective_ack(a, d)
        IN AdvancesInCongestionAvoidance(a, d, r) =>
               IF ~p.a.in_fast_recovery /\ r.a.in_fast_recovery
               THEN /\ r.a.partial_bytes_acked = 0
                    /\ r.a.cwnd = Max(CwndAfterAck(a, d, p) \div 2, 4 * a.mtu)
                    /\ r.a.ssthresh = r.a.cwnd
               ELSE CongestionAvoidanceStep(a, r)

\* in congestion avoidance with data pending, a SACK advances the cumulative
\* ack point, brings partial_bytes_acked to cwnd or above, and cwnd grows by
\* mtu
C32_Witness ==
    \E d \in AvoidSackInputs(a) :
        LET r == handle_sack(a, d)
        IN /\ AdvancesInCongestionAvoidance(a, d, r)
           /\ ~r.a.in_fast_recovery
           /\ pending_len(a.pending_queue) > 0
           /\ a.partial_bytes_acked + NewlyAcked(a, r.a) >= a.cwnd
           /\ r.a.cwnd = a.cwnd + a.mtu

\* C33: fast recovery ends when its exit point is acknowledged.  If
\* in_fast_recovery is true and the cumulative ack of a SACK is >=
\* fast_recover_exit_point (serial order), in_fast_recovery is cleared while
\* the cumulative region of that SACK is processed, and it is true after the
\* SACK only if a miss indicator has reached 3 in that SACK and fast recovery
\* was entered anew, with the exit point at the highest TSN newly
\* acknowledged; so in_fast_recovery is never true once
\* cumulative_tsn_ack_point has reached fast_recover_exit_point.
C33_FastRecoveryEndsAtExitPoint ==
    /\ a.in_fast_recovery =>
           sna32lt(a.cumulative_tsn_ack_point, a.fast_recover_exit_point)
    /\ \A d \in DataSackInputs(a) :
          LET r == handle_sack(a, d)
              p == process_selective_ack(a, d)
          IN (a.in_fast_recovery
              /\ sna32gte(d.cumulative_tsn_ack, a.fast_recover_exit_point)) =>
                 /\ ~p.a.in_fast_recovery
                 /\ r.a.in_fast_recovery =>
                        /\ r.processed
                        /\ ReachThree(a, r.a) # {}
                        /\ r.a.fast_recover_exit_point = p.htna
                        /\ sna32lt(r.a.cumulative_tsn_ack_point,
                                   r.a.fast_recover_exit_point)

\* the TSNs whose miss indicator a SACK d is to increment, p being the
\* result of process_selective_ack for it: outside fast recovery the chunks
\* that are unacked, not abandoned and strictly between the cumulative ack
\* and HTNA; in fast recovery, if the ack point advanced, the unacked, not
\* abandoned chunks with TSN in (cum-ack, cum-ack + inflight-len]; with
\* capped, only chunks whose miss indicator is below 3
MissDue(p, d, advanced, capped) ==
    LET q == p.a.inflight_queue
        eligible(t) == /\ ~q.chunk_map[t].acked
                       /\ ~q.chunk_map[t].abandoned
                       /\ capped => q.chunk_map[t].miss_indicator < 3
    IN IF ~p.a.in_fast_recovery
       THEN {t \in pq_tsns(q) : /\ eligible(t)
                                /\ sna32gt(t, d.cumulative_tsn_ack)
                                /\ sna32lt(t, p.htna)}
       ELSE IF advanced
       THEN {t \in pq_tsns(q) : /\ eligible(t)
                                /\ t \in {Add32(d.cumulative_tsn_ack, k) :
                                             k \in 1..pq_len(q)}}
       ELSE {}

\* the miss indicators of association s2 are those of s, plus one for the
\* TSNs of T
MissIncrementedFor(s, s2, T) ==
    /\ pq_tsns(s2.inflight_queue) = pq_tsns(s.inflight_queue)
    /\ \A t \in pq_tsns(s.inflight_queue) :
          s2.inflight_queue.chunk_map[t].miss_indicator =
              s.inflight_queue.chunk_map[t].miss_indicator
                  + (IF t \in T THEN 1 ELSE 0)

\* C34 as stated: a SACK that is processed outside fast recovery increments
\* by one the miss indicator of exactly the inflight chunks that are
\* unacked, not abandoned and strictly between its cumulative ack and HTNA;
\* in fast recovery miss indicators are incremented only if the cumulative
\* ack point advanced, and then for every unacked, non-abandoned chunk with
\* TSN in (cum-ack, cum-ack + inflight-len]; in any other case no miss
\* indicator changes.
C34_MissIndicatorsExact ==
    \A d \in DataSackInputs(a) :
        LET r == handle_sack(a, d)
            p == process_selective_ack(a, d)
            advanced == sna32lt(a.cumulative_tsn_ack_point, d.cumulative_tsn_ack)
        IN r.processed =>
               MissIncrementedFor(p.a, r.a, MissDue(p, d, advanced, FALSE))

\* C34: the same for the chunks whose miss indicator is below 3, the others
\* keeping theirs; a SACK that is discarded or rejected changes no miss
\* indicator of a chunk that stays in the inflight queue.
C34_MissIndicatorsBelowThree ==
    \A d \in DataSackInputs(a) :
        LET r == handle_sack(a, d)
            p == process_selective_ack(a, d)
            advanced == sna32lt(a.cumulative_tsn_ack_point, d.cumulative_tsn_ack)
        IN IF r.processed
           THEN MissIncrementedFor(p.a, r.a, MissDue(p, d, advanced, TRUE))
           ELSE \A t \in pq_tsns(r.a.inflight_queue) :
                    r.a.inflight_queue.chunk_map[t].miss_indicator =
                        a.inflight_queue.chunk_map[t].miss_indicator

\* a SACK is processed in fast recovery, advances the cumulative ack point
\* and increments the miss indicator of a chunk beyond it
C34_Witness ==
    /\ a.in_fast_recovery
    /\ \E d \in DataSackInputs(a) :
          LET r == handle_sack(a, d)
              p == process_selective_ack(a, d)
          IN /\ r.processed
             /\ p.a.in_fast_recovery
             /\ sna32lt(a.cumulative_tsn_ack_point, d.cumulative_tsn_ack)
             /\ MissDue(p, d, TRUE, TRUE) # {}
             /\ MissIncrementedFor(p.a, r.a, MissDue(p, d, TRUE, TRUE))

---------------------------------------------------------------------------
(* Properties of the timer callbacks and of FORWARD-TSN on the sending side *)

\* the number of abandoned chunks with the consecutive TSNs tsn + 1,
\* tsn + 2, ... in the queue q
RECURSIVE AbandonedRun(_, _)
AbandonedRun(q, tsn) ==
    IF pq_has(q, Add32(tsn, 1)) /\ q.chunk_map[Add32(tsn, 1)].abandoned
    THEN 1 + AbandonedRun(q, Add32(tsn, 1))
    ELSE 0

TimeoutHasWork(s, id) ==
    CASE id = "T1Init" -> s.stored_init
      [] id = "T1Cookie" -> s.stored_cookie_echo
      [] id = "T2Shutdown" -> s.state \in {"ShutdownSent", "ShutdownAckSent"}
      [] id = "T3RTX" -> TRUE
      [] id = "Reconfig" -> TRUE

C37_ForwardTsnPoint ==
    /\ \A d \in DataSackInputs(a) :
          LET r == handle_sack(a, d)
          IN (a.use_forward_tsn /\ r.processed) =>
                 /\ r.a.advanced_peer_tsn_ack_point =
                        Add32(r.a.cumulative_tsn_ack_point,
                              AbandonedRun(r.a.inflight_queue,
                                           r.a.cumulative_tsn_ack_point))
                 /\ sna32gt(r.a.advanced_peer_tsn_ack_point,
                            r.a.cumulative_tsn_ack_point) =>
                        r.a.will_send_forward_tsn
    /\ LET g == gather_outbound_forward_tsn_packets(a, <<>>)
       IN IF a.will_send_forward_tsn
          THEN /\ g.a = [a EXCEPT !.will_send_forward_tsn = FALSE]
               /\ IF sna32gt(a.advanced_peer_tsn_ack_point, a.cumulative_tsn_ack_point)
                  THEN /\ Len(g.raw_packets) = 1
                       /\ g.raw_packets[1].type = "FORWARD-TSN"
                       /\ g.raw_packets[1].new_cumulative_tsn =
                              a.advanced_peer_tsn_ack_point
                  ELSE g.raw_packets = <<>>
          ELSE g.a = a /\ g.raw_packets = <<>>

\* C38: get_data_packets_to_retransmit terminates for every content of the
\* inflight queue, a chunk met by the scan with its retransmit flag false
\* included (a second call after a single T3-rtx timeout for example).
C38_RetransmitScanTerminates ==
    ~get_data_packets_to_retransmit(a).hangs

---------------------------------------------------------------------------
(* Properties of the error path of handle_sack and of the state Closed      *)

\* C39: handle_sack is atomic on error.  When it returns an error because a
\* TSN covered by the cumulative ack of the SACK or by one of its gap-ack
\* blocks is not in the inflight queue, the association is as it was before
\* the SACK: no chunk has left the inflight queue or been marked acked in
\* it, the T3-rtx timer has not been stopped, and cumulative_tsn_ack_point,
\* cwnd, rwnd and in_fast_recovery are unchanged.
C39_HandleSackAtomicOnError ==
    \A d \in DataSackInputs(a) :
        LET r == handle_sack(a, d)
            p == process_selective_ack(a, d)
        IN (sack_state_ok(a.state) /\ ~sack_is_stale(a, d) /\ p.err # "Ok") =>
               /\ r.ret = p.err
               /\ r.a = a


\* the associations that handling one inbound chunk (DATA, SACK,
\* FORWARD-TSN, SHUTDOWN, SHUTDOWN-ACK, SHUTDOWN-COMPLETE) or one timer
\* callback leaves, for every input of the model
InboundResults(s) ==
    {handle_data(s, d).a : d \in RecvDataInputs(s)}
    \cup {handle_sack(s, d).a : d \in SackInputs(s)}
    \cup {handle_forward_tsn(s, c).a : c \in ForwardTsnInputs(s)}
    \cup {handle_shutdown(s), handle_shutdown_ack(s), handle_shutdown_complete(s)}
    \cup {on_retransmission_timeout(s, id) : id \in RtxTimerIds}
    \cup {on_ack_timeout(s)}

\* s2 is Closed and has no shutdown flag set that s has not
StaysClosed(s, s2) ==
    /\ s2.state = "Closed"
    /\ s2.will_send_shutdown => s.will_send_shutdown
    /\ s2.will_send_shutdown_ack => s.will_send_shutdown_ack
    /\ s2.will_send_shutdown_complete => s.will_send_shutdown_complete

\* C40: Closed is absorbing for inbound processing.  Once the state is
\* Closed, handle_data, handle_sack, handle_forward_tsn, handle_shutdown,
\* handle_shutdown_ack, handle_shutdown_complete and the timer callbacks,
\* one after the other, neither change the state nor set will_send_shutdown,
\* will_send_shutdown_ack or will_send_shutdown_complete; a SACK handled in
\* a state other than Established, ShutdownPending and ShutdownReceived
\* changes no field at all.
C40_ClosedIsAbsorbing ==
    /\ a.state = "Closed" =>
          \A s1 \in InboundResults(a) :
              /\ StaysClosed(a, s1)
              /\ \A s2 \in InboundResults(s1) : StaysClosed(s1, s2)
    /\ a.state \notin {"Established", "ShutdownPending", "ShutdownReceived"} =>
          \A d \in AnySackInputs(a) \cup SackInputs(a) :
              LET r == handle_sack(a, d)
              IN r.a = a /\ r.ret = "Ok" /\ ~r.rwnd_set

\* the association was closed by a SHUTDOWN-COMPLETE, a SHUTDOWN-ACK that
\* arrives late is handled without effect, and a T3-rtx timeout and an ack
\* timeout still write other fields
C40_Witness ==
    /\ a.state = "Closed"
    /\ closed
    /\ a.will_send_shutdown_ack
    /\ ~a.will_send_shutdown_complete
    /\ handle_shutdown_ack(a) = a
    /\ on_ack_timeout(a) # a
    /\ \E s1 \in InboundResults(a) : s1 # a /\ \E s2 \in InboundResults(s1) : s2 # s1
=============================================================================
